---- MODULE Spec2Model ----
(***************************************************************************)
(* Model of src/app/api/generate-certificate/route.ts: the raw PDF         *)
(* certificate encoder generateCertificatePDF and its helper escapeText.   *)
(*                                                                         *)
(* A JavaScript string is a sequence of UTF-16 code units (naturals), a    *)
(* Buffer is a sequence of bytes (0..255).  Positions in the JavaScript    *)
(* sense are 0-based; sequences here are 1-based, so byte offset k of a    *)
(* buffer is element k+1.                                                  *)
(***************************************************************************)
EXTENDS Integers, Naturals, Sequences, FiniteSets, TLC

VARIABLES queue, done, pc, data, contentStream, objects, objNum, pdf,
          offsets, xrefOffset, raw, escaped, asked, calls,
          request, step, jsonBody, participants, certificates, response, caught, now,
          result, parseOutcome,
          currentStep, completedSteps, showSampleData, excelFile,
          validationResult, generationResult, dispatchResult,
          isValidating, isGenerating, isDispatching, generationProgress,
          errorMessage, activeAgentId, progressIntervalRef, intervals,
          validating, generating, dispatching, parsed, pdfRes, dispatchMessage, world

\* the caller's list of requests, the finished calls, and the locals of
\* the running call of generateCertificatePDF
encVars == <<queue, done, pc, data, contentStream, objects, objNum, pdf,
             offsets, xrefOffset>>

\* the argument and the result of a direct application of escapeText
escVars == <<raw, escaped>>

\* the calls of the encoder that a JavaScript caller still has to make, with
\* arguments of any type, and the calls made, each with its outcome
callVars == <<asked, calls>>

\* one run of the POST handler: the body of the HTTP request, the position
\* of the handler, its locals, the response it gave, the error its catch
\* block received, and the clock (index of the current instant)
postVars == <<request, step, jsonBody, participants, certificates, response, caught, now>>

\* one call of parseAgentResponse: its argument and what came of it
parseVars == <<result, parseOutcome>>

\* the React state of the page component
stateVars == <<currentStep, completedSteps, showSampleData, excelFile,
               validationResult, generationResult, dispatchResult,
               isValidating, isGenerating, isDispatching, generationProgress,
               errorMessage, activeAgentId>>

\* the progress timer: the ref that holds its id, and the intervals the
\* browser is running
timerVars == <<progressIntervalRef, intervals>>

\* the runs of handleValidate, handleGenerate and handleDispatch: the await
\* each one stands at, the locals of handleGenerate, the message of the
\* dispatch call, and what the agents of this world answer
runVars == <<validating, generating, dispatching, parsed, pdfRes, dispatchMessage, world>>

\* the state of the browser page
pageVars == <<parseVars, stateVars, timerVars, runVars>>

vars == <<encVars, escVars, callVars, postVars, pageVars>>

(***************************************************************************)
(* Bounds of the model.                                                    *)
(***************************************************************************)
\* total number of code units over the four fields of an explored request
MaxLen == 2
\* the same bound for the request that is encoded repeatedly (SpecCalls)
MaxCallLen == 1
\* longest string explored for escapeText on its own (SpecEscape)
MaxEscLen == 4

(***************************************************************************)
(* Text: TLA+ string literals converted to sequences of code units.        *)
(***************************************************************************)
AsciiLo == " !\"#$%&'()*+,-./0123456789:;<=>?@ABCDEFGHIJKLMNOPQRSTUVWXYZ[\\]^_"
AsciiHi == "abcdefghijklmnopqrstuvwxyz{|}~"

\* the code unit of each printable ASCII character used in the source text
CodeOf ==
  [c \in {SubSeq(AsciiLo, i, i) : i \in 1..Len(AsciiLo)}
          \cup {SubSeq(AsciiHi, i, i) : i \in 1..Len(AsciiHi)} |->
     IF \E i \in 1..Len(AsciiLo) : SubSeq(AsciiLo, i, i) = c
     THEN 31 + (CHOOSE i \in 1..Len(AsciiLo) : SubSeq(AsciiLo, i, i) = c)
     ELSE 96 + (CHOOSE i \in 1..Len(AsciiHi) : SubSeq(AsciiHi, i, i) = c)]

Str(s) == [i \in 1..Len(s) |-> CodeOf[SubSeq(s, i, i)]]

NL == 10
LPAREN == 40
RPAREN == 41
BACKSLASH == 92
ZERO == 48

\* Array.prototype.join: the elements separated by the code units of sep
RECURSIVE Join(_, _)
Join(lines, sep) ==
  IF Len(lines) = 0 THEN <<>>
  ELSE IF Len(lines) = 1 THEN lines[1]
  ELSE LET h == Len(lines) \div 2
       IN Join(SubSeq(lines, 1, h), sep) \o sep
            \o Join(SubSeq(lines, h + 1, Len(lines)), sep)

\* concatenation of the pieces of a template literal
Cat(parts) == Join(parts, <<>>)

\* String(n) for a non-negative integer
RECURSIVE Dec(_)
Dec(n) == IF n < 10 THEN <<ZERO + n>> ELSE Dec(n \div 10) \o <<ZERO + (n % 10)>>

\* Number-to-string of the JavaScript number q/4 (every coordinate of the
\* layout is a multiple of 0.25, which doubles represent exactly)
NumStr4(q) ==
  LET a == IF q < 0 THEN 0 - q ELSE q
      frac == CASE a % 4 = 0 -> <<>>
                [] a % 4 = 1 -> Str(".25")
                [] a % 4 = 2 -> Str(".5")
                [] a % 4 = 3 -> Str(".75")
  IN (IF q < 0 THEN Str("-") ELSE <<>>) \o Dec(a \div 4) \o frac

\* Number-to-string of an integer-valued JavaScript number
NumStr(n) == NumStr4(4 * n)

\* String.prototype.padStart(n, ch) with a one-unit filler
RECURSIVE padStart(_, _, _)
padStart(s, n, ch) == IF Len(s) >= n THEN s ELSE padStart(<<ch>> \o s, n, ch)

(***************************************************************************)
(* UTF-8: Buffer.from(s, 'utf-8') and Buffer.byteLength(s, 'utf-8').       *)
(* A high surrogate followed by a low surrogate encodes one code point in  *)
(* four bytes; a surrogate without its partner becomes U+FFFD (EF BF BD).  *)
(***************************************************************************)
IsHigh(u) == u >= 55296 /\ u <= 56319
IsLow(u) == u >= 56320 /\ u <= 57343

Utf8CodePoint(cp) ==
  IF cp < 128 THEN <<cp>>
  ELSE IF cp < 2048 THEN <<192 + (cp \div 64), 128 + (cp % 64)>>
  ELSE IF cp < 65536
    THEN <<224 + (cp \div 4096), 128 + ((cp \div 64) % 64), 128 + (cp % 64)>>
  ELSE <<240 + (cp \div 262144), 128 + ((cp \div 4096) % 64),
         128 + ((cp \div 64) % 64), 128 + (cp % 64)>>

\* bytes of the code unit at position i of s, given its neighbours
Utf8At(s, i) ==
  LET u == s[i]
  IN IF IsHigh(u)
       THEN IF i < Len(s) /\ IsLow(s[i + 1])
              THEN Utf8CodePoint(65536 + (u - 55296) * 1024 + (s[i + 1] - 56320))
              ELSE <<239, 191, 189>>
     ELSE IF IsLow(u)
       THEN IF i > 1 /\ IsHigh(s[i - 1]) THEN <<>> ELSE <<239, 191, 189>>
     ELSE Utf8CodePoint(u)

NonAscii(s) == {i \in 1..Len(s) : s[i] > 127}

RECURSIVE Utf8From(_, _, _)
Utf8From(s, from, rest) ==
  IF rest = {} THEN SubSeq(s, from, Len(s))
  ELSE LET i == CHOOSE k \in rest : \A m \in rest : k <= m
       IN SubSeq(s, from, i - 1) \o Utf8At(s, i)
            \o Utf8From(s, i + 1, rest \ {i})

BufferFrom(s) == Utf8From(s, 1, NonAscii(s))

\* the mistake of counting characters instead of bytes
byteLengthChars(s) == Len(s)

RECURSIVE ExtraBytes(_, _)
ExtraBytes(s, rest) ==
  IF rest = {} THEN 0
  ELSE LET i == CHOOSE k \in rest : TRUE
       IN (Len(Utf8At(s, i)) - 1) + ExtraBytes(s, rest \ {i})

byteLength(s) == Len(s) + ExtraBytes(s, NonAscii(s))

(***************************************************************************)
(* escapeText (route.ts 6-8): three global replacements, in this order.    *)
(***************************************************************************)
replaceAll(text, ch, by) ==
  Join([i \in 1..Len(text) |-> IF text[i] = ch THEN by ELSE <<text[i]>>], <<>>)

\* the mistake of escaping the parentheses before the backslashes
escapeTextParensFirst(text) ==
  replaceAll(replaceAll(replaceAll(text,
      LPAREN, <<BACKSLASH, LPAREN>>),
      RPAREN, <<BACKSLASH, RPAREN>>),
      BACKSLASH, <<BACKSLASH, BACKSLASH>>)

escapeText(text) ==
  replaceAll(replaceAll(replaceAll(text,
      BACKSLASH, <<BACKSLASH, BACKSLASH>>),
      LPAREN, <<BACKSLASH, LPAREN>>),
      RPAREN, <<BACKSLASH, RPAREN>>)

(***************************************************************************)
(* generateCertificatePDF (route.ts 10-236): the content stream.           *)
(* Coordinates are JavaScript numbers; they are kept here in quarter       *)
(* points (Q units per point) so that 4.5 * length / 2 stays an integer.   *)
(***************************************************************************)
pageWidth == 792
pageHeight == 612
Q == 4
centerX == (pageWidth * Q) \div 2

\* `${centerX - width / 2} <y> Td` for a width in quarter points
TdLine(width, y) == Cat(<<NumStr4(centerX - width \div 2), Str(" "), Str(y), Str(" Td")>>)

\* the mistake of writing the label without escaping it
TjLineRaw(label) == Cat(<<Str("("), label, Str(") Tj")>>)

\* `(${escapeText(label)}) Tj`
TjLine(label) == Cat(<<Str("("), escapeText(label), Str(") Tj")>>)

\* `${a} <y> m ${b} <y> l S` with a, b in quarter points
RuleLine(a, b, y) ==
  Cat(<<NumStr4(a), Str(" "), Str(y), Str(" m "), NumStr4(b), Str(" "), Str(y), Str(" l S")>>)

outerBorder ==
  << Str("0.15 0.15 0.15 RG"), Str("3 w"),
     Cat(<<Str("30 30 "), NumStr(pageWidth - 60), Str(" "), NumStr(pageHeight - 60), Str(" re S")>>) >>

innerBorder ==
  << Str("0.4 0.4 0.4 RG"), Str("1.5 w"),
     Cat(<<Str("42 42 "), NumStr(pageWidth - 84), Str(" "), NumStr(pageHeight - 84), Str(" re S")>>) >>

cornerAccents ==
  << Str("0.2 0.2 0.2 RG"), Str("2 w"),
     Str("50 552 m 50 562 l S"),
     Str("50 562 m 60 562 l S"),
     Cat(<<NumStr(pageWidth - 50), Str(" 552 m "), NumStr(pageWidth - 50), Str(" 562 l S")>>),
     Cat(<<NumStr(pageWidth - 50), Str(" 562 m "), NumStr(pageWidth - 60), Str(" 562 l S")>>),
     Str("50 60 m 50 50 l S"),
     Str("50 50 m 60 50 l S"),
     Cat(<<NumStr(pageWidth - 50), Str(" 60 m "), NumStr(pageWidth - 50), Str(" 50 l S")>>),
     Cat(<<NumStr(pageWidth - 50), Str(" 50 m "), NumStr(pageWidth - 60), Str(" 50 l S")>>) >>

topLine ==
  << Str("0.3 0.3 0.3 RG"), Str("1 w"), RuleLine(centerX - 180 * Q, centerX + 180 * Q, "520") >>

certLabel == Str("CERTIFICATE")
certLabelWidth == Len(certLabel) * (9 * Q)
certHeader ==
  << Str("BT"), Str("/F2 14 Tf"), Str("0.35 0.35 0.35 rg"),
     TdLine(certLabelWidth, "535"), TjLine(certLabel), Str("ET") >>

ofLabel == Str("OF COMPLETION")
ofLabelWidth == Len(ofLabel) * (7 * Q)
ofHeader ==
  << Str("BT"), Str("/F2 11 Tf"), Str("0.45 0.45 0.45 rg"),
     TdLine(ofLabelWidth, "505"), TjLine(ofLabel), Str("ET") >>

certifyText == Str("This is to certify that")
certifyWidth == Len(certifyText) * (6 * Q)
certifyBlock ==
  << Str("BT"), Str("/F1 12 Tf"), Str("0.4 0.4 0.4 rg"),
     TdLine(certifyWidth, "455"), TjLine(certifyText), Str("ET") >>

\* the mistake of measuring the name after escaping it
nameWidthEscaped(name) == Len(escapeText(name)) * (14 * Q)

\* name.length * 14
nameWidth(name) == Len(name) * (14 * Q)
\* the mistake of leaving the text object of the name open
nameBlockUnclosed(name) ==
  << Str("BT"), Str("/F2 28 Tf"), Str("0.1 0.1 0.1 rg"),
     TdLine(nameWidth(name), "410"), TjLine(name) >>

nameBlock(name) ==
  << Str("BT"), Str("/F2 28 Tf"), Str("0.1 0.1 0.1 rg"),
     TdLine(nameWidth(name), "410"), TjLine(name), Str("ET") >>

nameLine ==
  << Str("0.3 0.3 0.3 RG"), Str("0.8 w"), RuleLine(centerX - 140 * Q, centerX + 140 * Q, "400") >>

completedText == Str("has successfully completed the course")
completedWidth == Len(completedText) * (6 * Q)
completedBlock ==
  << Str("BT"), Str("/F1 12 Tf"), Str("0.4 0.4 0.4 rg"),
     TdLine(completedWidth, "370"), TjLine(completedText), Str("ET") >>

courseWidth(course) == Len(course) * (11 * Q)
courseBlock(course) ==
  << Str("BT"), Str("/F2 22 Tf"), Str("0.15 0.15 0.15 rg"),
     TdLine(courseWidth(course), "330"), TjLine(course), Str("ET") >>

courseLine ==
  << Str("0.5 0.5 0.5 RG"), Str("0.5 w"), RuleLine(centerX - 100 * Q, centerX + 100 * Q, "320") >>

datePrefix == Str("Completed on: ")
dateLabel(date) == datePrefix \o date
dateWidth(date) == Len(dateLabel(date)) * (6 * Q)
dateBlock(date) ==
  << Str("BT"), Str("/F1 11 Tf"), Str("0.4 0.4 0.4 rg"),
     TdLine(dateWidth(date), "280"), TjLine(dateLabel(date)), Str("ET") >>

leftSignature ==
  << Str("0.3 0.3 0.3 RG"), Str("0.8 w"), Str("160 160 m 320 160 l S"),
     Str("BT"), Str("/F1 9 Tf"), Str("0.45 0.45 0.45 rg"),
     Str("200 145 Td"), Str("(Authorized Signature) Tj"), Str("ET") >>

rightSignature ==
  << Str("0.3 0.3 0.3 RG"), Str("0.8 w"),
     Cat(<<NumStr(pageWidth - 320), Str(" 160 m "), NumStr(pageWidth - 160), Str(" 160 l S")>>),
     Str("BT"), Str("/F1 9 Tf"), Str("0.45 0.45 0.45 rg"),
     Cat(<<NumStr(pageWidth - 280), Str(" 145 Td")>>),
     Str("(Program Director) Tj"), Str("ET") >>

idPrefix == Str("Certificate ID: ")
idLabel(certificate_id) == idPrefix \o certificate_id
\* 4.5 points per character is 18 quarter points
idWidth(certificate_id) == Len(idLabel(certificate_id)) * 18
\* the mistake of selecting the regular font for the certificate id
idBlockRegularFont(certificate_id) ==
  << Str("BT"), Str("/F1 8 Tf"), Str("0.55 0.55 0.55 rg"),
     TdLine(idWidth(certificate_id), "80"), TjLine(idLabel(certificate_id)), Str("ET") >>

idBlock(certificate_id) ==
  << Str("BT"), Str("/F3 8 Tf"), Str("0.55 0.55 0.55 rg"),
     TdLine(idWidth(certificate_id), "80"), TjLine(idLabel(certificate_id)), Str("ET") >>

brandLabel == Str("Powered by CertifyFlow")
brandWidth == Len(brandLabel) * (5 * Q)
brandBlock ==
  << Str("BT"), Str("/F2 8 Tf"), Str("0.65 0.65 0.65 rg"),
     TdLine(brandWidth, "62"), TjLine(brandLabel), Str("ET") >>

bottomLine ==
  << Str("0.3 0.3 0.3 RG"), Str("1 w"), RuleLine(centerX - 180 * Q, centerX + 180 * Q, "95") >>

\* the operators pushed before the participant name (route.ts 26-85)
linesBeforeName ==
  outerBorder \o innerBorder \o cornerAccents \o topLine
    \o certHeader \o ofHeader \o certifyBlock

\* the operators that follow the certificate-ID block (route.ts 168-181)
linesAfterId == brandBlock \o bottomLine

\* the mistake of drawing the last rule before the branding line
contentLinesRuleBeforeBranding(d) ==
  linesBeforeName \o nameBlock(d.name) \o nameLine \o completedBlock
    \o courseBlock(d.course) \o courseLine \o dateBlock(d.date)
    \o leftSignature \o rightSignature \o idBlock(d.certificate_id)
    \o bottomLine \o brandBlock

contentLines(d) ==
  linesBeforeName \o nameBlock(d.name) \o nameLine \o completedBlock
    \o courseBlock(d.course) \o courseLine \o dateBlock(d.date)
    \o leftSignature \o rightSignature \o idBlock(d.certificate_id)
    \o linesAfterId

(***************************************************************************)
(* generateCertificatePDF: the seven indirect objects (route.ts 185-216).  *)
(***************************************************************************)
\* the mistake of leaving out objNum++
PushObjectSameNumber(st, body) ==
  [objects |-> Append(st.objects,
                 Cat(<<Dec(st.objNum), Str(" 0 obj"), <<NL>>, body, <<NL>>, Str("endobj")>>)),
   objNum |-> st.objNum]

\* objects.push(`${objNum} 0 obj\n<body>\nendobj`); objNum++
PushObject(st, body) ==
  [objects |-> Append(st.objects,
                 Cat(<<Dec(st.objNum), Str(" 0 obj"), <<NL>>, body, <<NL>>, Str("endobj")>>)),
   objNum |-> st.objNum + 1]

catalogBody == Str("<< /Type /Catalog /Pages 2 0 R >>")

pagesBody == Str("<< /Type /Pages /Kids [3 0 R] /Count 1 >>")

pageBody ==
  Cat(<<Str("<< /Type /Page /Parent 2 0 R /MediaBox [0 0 "), NumStr(pageWidth), Str(" "),
        NumStr(pageHeight),
        Str("] /Contents 4 0 R /Resources << /Font << /F1 5 0 R /F2 6 0 R /F3 7 0 R >> >> >>")>>)

\* the mistake of taking contentStream.length for the stream length
streamChars(stream) == stream

\* const streamBytes = Buffer.from(contentStream, 'utf-8')
streamBytes(stream) == BufferFrom(stream)

streamBody(stream) ==
  Cat(<<Str("<< /Length "), Dec(Len(streamBytes(stream))), Str(" >>"), <<NL>>,
        Str("stream"), <<NL>>, stream, <<NL>>, Str("endstream")>>)

fontF1Body == Str("<< /Type /Font /Subtype /Type1 /BaseFont /Helvetica /Encoding /WinAnsiEncoding >>")

fontF2Body == Str("<< /Type /Font /Subtype /Type1 /BaseFont /Helvetica-Bold /Encoding /WinAnsiEncoding >>")

fontF3Body == Str("<< /Type /Font /Subtype /Type1 /BaseFont /Courier /Encoding /WinAnsiEncoding >>")

\* the mistake of emitting the fonts before the content stream
buildObjectsFontsFirst(stream) ==
  PushObject(PushObject(PushObject(PushObject(PushObject(PushObject(PushObject(
      [objects |-> <<>>, objNum |-> 1],
      catalogBody), pagesBody), pageBody), fontF1Body), fontF2Body), fontF3Body),
      streamBody(stream))

\* the mistake of keeping objNum outside the function, so that only the
\* first call starts numbering at 1
buildObjectsSharedCounter(stream) ==
  PushObject(PushObject(PushObject(PushObject(PushObject(PushObject(PushObject(
      [objects |-> <<>>, objNum |-> IF done = <<>> THEN 1 ELSE objNum],
      catalogBody), pagesBody), pageBody), streamBody(stream)),
      fontF1Body), fontF2Body), fontF3Body)

\* const objects = []; let objNum = 1; then the seven pushes
buildObjects(stream) ==
  PushObject(PushObject(PushObject(PushObject(PushObject(PushObject(PushObject(
      [objects |-> <<>>, objNum |-> 1],
      catalogBody), pagesBody), pageBody), streamBody(stream)),
      fontF1Body), fontF2Body), fontF3Body)

(***************************************************************************)
(* generateCertificatePDF: file assembly (route.ts 218-235).               *)
(***************************************************************************)
pdfHeader == Str("%PDF-1.4") \o <<NL>>

xrefHead(n) == Cat(<<Str("xref"), <<NL>>, Str("0 "), Dec(n), <<NL>>, Str("0000000000 65535 f "), <<NL>>>>)

\* the mistake of leaving out the zero padding
xrefEntryUnpadded(offset) == Cat(<<Dec(offset), Str(" 00000 n "), <<NL>>>>)

\* `${String(offset).padStart(10, '0')} 00000 n \n`
xrefEntry(offset) == Cat(<<padStart(Dec(offset), 10, ZERO), Str(" 00000 n "), <<NL>>>>)

RECURSIVE xrefEntries(_)
xrefEntries(offs) ==
  IF offs = <<>> THEN <<>> ELSE xrefEntry(Head(offs)) \o xrefEntries(Tail(offs))

\* the mistake of ending the file with a newline after %%EOF
trailerTextNewline(n, xref) ==
  Cat(<<Str("trailer"), <<NL>>, Str("<< /Size "), Dec(n), Str(" /Root 1 0 R >>"), <<NL>>,
        Str("startxref"), <<NL>>, Dec(xref), <<NL>>, Str("%%EOF"), <<NL>>>>)

trailerText(n, xref) ==
  Cat(<<Str("trailer"), <<NL>>, Str("<< /Size "), Dec(n), Str(" /Root 1 0 R >>"), <<NL>>,
        Str("startxref"), <<NL>>, Dec(xref), <<NL>>, Str("%%EOF")>>)

(***************************************************************************)
(* Requests.                                                               *)
(***************************************************************************)
\* code units explored in the fields: a ( ) \ e-acute (two bytes in UTF-8)
\* and the surrogate pair of U+1F600 (four bytes; three for a lone half)
Alphabet == {97, LPAREN, RPAREN, BACKSLASH, 233, 55357, 56832}

StringsOfLen(k) == [1..k -> Alphabet]

Request(n, c, d, i) == [name |-> n, course |-> c, date |-> d, certificate_id |-> i]

\* the requests whose four fields hold at most n code units together
Requests(n) ==
  UNION { { Request(a, b, c, d) : a \in StringsOfLen(ln), b \in StringsOfLen(lc),
                                    c \in StringsOfLen(ld), d \in StringsOfLen(li) }
          : <<ln, lc, ld, li>> \in { t \in (0..n) \X (0..n) \X (0..n) \X (0..n) :
                                      t[1] + t[2] + t[3] + t[4] <= n } }

\* the two example scenarios of the specification
ExampleAlice ==
  Request(Str("Alice Johnson"), Str("Advanced React"), Str("2025-01-15"), Str("CERT-AJ-2025-001"))

ExampleParens ==
  Request(Str("Alice Johnson"), Str("Intro (Basics)"), Str("2025-01-15"), Str("CERT-AJ-2025-001"))

Examples == {ExampleAlice, ExampleParens}

NoRequest == Request(<<>>, <<>>, <<>>, <<>>)

(***************************************************************************)
(* JavaScript values as they arrive from a parsed JSON body: TypeScript's  *)
(* types are erased at run time, so a field declared string can hold any   *)
(* of them.                                                                *)
(***************************************************************************)
JsString(s) == [t |-> "string", s |-> s]

JsNumber(n) == [t |-> "number", n |-> n]

JsUndefined == [t |-> "undefined"]

JsNull == [t |-> "null"]

\* no HTTP request has reached the POST handler
NoRequestReceived ==
  /\ request = JsUndefined
  /\ step = "idle"
  /\ jsonBody = JsUndefined
  /\ participants = <<>>
  /\ certificates = <<>>
  /\ response = JsUndefined
  /\ caught = JsUndefined
  /\ now = 0

\* parseAgentResponse is not called
NoParseCall ==
  /\ result = JsUndefined
  /\ parseOutcome = JsUndefined

\* route.ts 712-759: the page as it is mounted, before any event, in a
\* world w of agent answers
\* the page at rest on a step: no handler is running; the steps below
\* the current one are completed
Resting(step0, sample, file, validation, generation, dispatch, w) ==
  /\ currentStep = step0
  /\ completedSteps = [i \in 1..step0 |-> i - 1]
  /\ showSampleData = sample
  /\ excelFile = file
  /\ validationResult = validation
  /\ generationResult = generation
  /\ dispatchResult = dispatch
  /\ isValidating = FALSE
  /\ isGenerating = FALSE
  /\ isDispatching = FALSE
  /\ generationProgress = IF generation = JsNull THEN 0 ELSE 100
  /\ errorMessage = <<>>
  /\ activeAgentId = JsNull
  /\ progressIntervalRef = 0
  /\ intervals = {}
  /\ validating = "idle"
  /\ generating = "idle"
  /\ dispatching = "idle"
  /\ parsed = JsUndefined
  /\ pdfRes = JsUndefined
  /\ dispatchMessage = JsUndefined
  /\ world = w

\* route.ts 712-759: the state of the page when it is mounted
Mounted(w) == Resting(0, FALSE, JsNull, JsNull, JsNull, JsNull, w)

\* no user acts on the page
NoPageMounted ==
  /\ NoParseCall
  /\ Mounted(JsUndefined)

(***************************************************************************)
(* The encoder as a state machine: one action per block of the function.   *)
(* queue holds the requests the caller still has to encode, done the       *)
(* calls that returned, each with the buffer it returned.                  *)
(***************************************************************************)
InitLocals ==
  /\ done = <<>>
  /\ pc = "idle"
  /\ data = NoRequest
  /\ contentStream = <<>>
  /\ objects = <<>>
  /\ objNum = 0
  /\ pdf = <<>>
  /\ offsets = <<>>
  /\ xrefOffset = 0

NotEscaped == <<0>>

\* escapeText is not applied on its own in the encoder runs
InitEscapeIdle ==
  /\ raw = <<>>
  /\ escaped = NotEscaped

\* no caller passes anything but the four strings of the signature
NoDirectCalls ==
  /\ asked = <<>>
  /\ calls = <<>>

\* one call, for every request within the bound and the two examples
Init ==
  /\ queue \in { <<r>> : r \in Requests(MaxLen) \cup Examples }
  /\ InitLocals
  /\ NoPageMounted
  /\ InitEscapeIdle
  /\ NoDirectCalls
  /\ NoRequestReceived

\* route.ts 10-16: the call and the destructuring of its argument
Call ==
  /\ pc = "idle"
  /\ queue # <<>>
  /\ data' = Head(queue)
  /\ queue' = Tail(queue)
  /\ pc' = "content"
  /\ UNCHANGED <<done, contentStream, objects, objNum, pdf, offsets, xrefOffset, escVars, callVars, postVars, pageVars>>

\* route.ts 24-183
BuildContent ==
  /\ pc = "content"
  /\ contentStream' = Join(contentLines(data), <<NL>>)
  /\ pc' = "objects"
  /\ UNCHANGED <<queue, done, data, objects, objNum, pdf, offsets, xrefOffset, escVars, callVars, postVars, pageVars>>

\* route.ts 186-216
BuildObjects ==
  /\ pc = "objects"
  /\ LET st == buildObjects(contentStream)
     IN /\ objects' = st.objects
        /\ objNum' = st.objNum
  /\ pc' = "assemble"
  /\ UNCHANGED <<queue, done, data, contentStream, pdf, offsets, xrefOffset, escVars, callVars, postVars, pageVars>>

\* for (const obj of objects) { offsets.push(Buffer.byteLength(pdf, 'utf-8')); pdf += obj + '\n' }
RECURSIVE appendObjects(_, _)
appendObjects(st, objs) ==
  IF objs = <<>> THEN st
  ELSE appendObjects([pdf |-> st.pdf \o Head(objs) \o <<NL>>,
                      offsets |-> Append(st.offsets, byteLength(st.pdf))],
                     Tail(objs))

\* the mistake of keeping the offsets array outside the function
AssembleKeepsOffsets ==
  /\ pc = "assemble"
  /\ LET st == appendObjects([pdf |-> pdfHeader, offsets |-> offsets], objects)
     IN /\ pdf' = st.pdf
        /\ offsets' = st.offsets
  /\ pc' = "xref"
  /\ UNCHANGED <<queue, done, data, contentStream, objects, objNum, xrefOffset, escVars, callVars, postVars, pageVars>>

\* route.ts 219-225: header, then the loop over objects
Assemble ==
  /\ pc = "assemble"
  /\ LET st == appendObjects([pdf |-> pdfHeader, offsets |-> <<>>], objects)
     IN /\ pdf' = st.pdf
        /\ offsets' = st.offsets
  /\ pc' = "xref"
  /\ UNCHANGED <<queue, done, data, contentStream, objects, objNum, xrefOffset, escVars, callVars, postVars, pageVars>>

\* the mistake of taking the character count for the xref offset
WriteXrefChars ==
  /\ pc = "xref"
  /\ xrefOffset' = Len(pdf)
  /\ pdf' = pdf \o xrefHead(objNum) \o xrefEntries(offsets)
                \o trailerText(objNum, Len(pdf))
  /\ pc' = "return"
  /\ UNCHANGED <<queue, done, data, contentStream, objects, objNum, offsets, escVars, callVars, postVars, pageVars>>

\* route.ts 227-233: cross-reference section and trailer
WriteXref ==
  /\ pc = "xref"
  /\ LET xref == byteLength(pdf)
     IN /\ xrefOffset' = xref
        /\ pdf' = pdf \o xrefHead(objNum) \o xrefEntries(offsets)
                      \o trailerText(objNum, xref)
  /\ pc' = "return"
  /\ UNCHANGED <<queue, done, data, contentStream, objects, objNum, offsets, escVars, callVars, postVars, pageVars>>

\* route.ts 235: return Buffer.from(pdf, 'utf-8')
Return ==
  /\ pc = "return"
  /\ done' = Append(done, [data |-> data, buffer |-> BufferFrom(pdf)])
  /\ pc' = "idle"
  /\ UNCHANGED <<queue, data, contentStream, objects, objNum, pdf, offsets, xrefOffset, escVars, callVars, postVars, pageVars>>

Next ==
  \/ Call
  \/ BuildContent
  \/ BuildObjects
  \/ Assemble
  \/ WriteXref
  \/ Return

Spec == Init /\ [][Next]_vars

(***************************************************************************)
(* The same encoder called several times: a request within the bound is    *)
(* encoded, possibly one of the examples next, and then the first request  *)
(* again.                                                                  *)
(***************************************************************************)
InitCalls ==
  /\ queue \in { <<r, r>> : r \in Requests(MaxCallLen) }
               \cup { <<r, e, r>> : r \in Requests(MaxCallLen), e \in Examples }
  /\ InitLocals
  /\ NoPageMounted
  /\ InitEscapeIdle
  /\ NoDirectCalls
  /\ NoRequestReceived

SpecCalls == InitCalls /\ [][Next]_vars

(***************************************************************************)
(* escapeText applied on its own to every string over the characters it    *)
(* treats specially and one it does not.                                   *)
(***************************************************************************)
EscapeAlphabet == {97, LPAREN, RPAREN, BACKSLASH}

EscapeInputs == UNION { [1..k -> EscapeAlphabet] : k \in 0..MaxEscLen }

InitEscape ==
  /\ queue = <<>>
  /\ InitLocals
  /\ NoPageMounted
  /\ raw \in EscapeInputs
  /\ escaped = NotEscaped
  /\ NoDirectCalls
  /\ NoRequestReceived

\* route.ts 6-8
EscapeText ==
  /\ escaped = NotEscaped
  /\ escaped' = escapeText(raw)
  /\ UNCHANGED <<encVars, raw, callVars, postVars, pageVars>>

NextEscape == EscapeText

SpecEscape == InitEscape /\ [][NextEscape]_vars

(***************************************************************************)
(* The whole of generateCertificatePDF as one function of its argument,    *)
(* built from the same blocks as the actions above.                        *)
(***************************************************************************)
generateCertificatePDF(d) ==
  LET stream == Join(contentLines(d), <<NL>>)
      built == buildObjects(stream)
      st == appendObjects([pdf |-> pdfHeader, offsets |-> <<>>], built.objects)
      xref == byteLength(st.pdf)
  IN BufferFrom(st.pdf \o xrefHead(built.objNum) \o xrefEntries(st.offsets)
                  \o trailerText(built.objNum, xref))

IsString(v) == v.t = "string"

\* the string a template literal `${v}` puts in place of v
templateString(v) ==
  CASE v.t = "string" -> v.s
    [] v.t = "number" -> NumStr(v.n)
    [] v.t = "undefined" -> Str("undefined")
    [] v.t = "null" -> Str("null")

NoError == [t |-> "none"]

TypeError(message) == [t |-> "Error", name |-> "TypeError", message |-> Str(message)]

\* the mistake of refusing an empty text
thrownOnEmptyToo(v) ==
  CASE v.t = "undefined" -> TypeError("Cannot read properties of undefined (reading 'length')")
    [] v.t = "null" -> TypeError("Cannot read properties of null (reading 'length')")
    [] v.t = "string" /\ v.s = <<>> -> TypeError("text is empty")
    [] v.t = "number" -> TypeError("text.replace is not a function")
    [] OTHER -> NoError

\* route.ts 91-93, 118-120: v.length and then escapeText(v), that is
\* v.replace(...), for a field v that is used as a text
thrownOn(v) ==
  CASE v.t = "undefined" -> TypeError("Cannot read properties of undefined (reading 'length')")
    [] v.t = "null" -> TypeError("Cannot read properties of null (reading 'length')")
    [] v.t = "number" -> TypeError("text.replace is not a function")
    [] OTHER -> NoError

\* route.ts 10-236 for an argument of any type: name and course are
\* measured and escaped, date and certificate_id go through a template
\* literal first
callEncoder(a) ==
  IF thrownOn(a.name) # NoError THEN [t |-> "throw", error |-> thrownOn(a.name)]
  ELSE IF thrownOn(a.course) # NoError THEN [t |-> "throw", error |-> thrownOn(a.course)]
  ELSE [t |-> "return",
        buffer |-> generateCertificatePDF(
                     Request(a.name.s, a.course.s, templateString(a.date),
                             templateString(a.certificate_id)))]

Args(n, c, d, i) == [name |-> n, course |-> c, date |-> d, certificate_id |-> i]

AllStrings(a) ==
  IsString(a.name) /\ IsString(a.course) /\ IsString(a.date) /\ IsString(a.certificate_id)

(***************************************************************************)
(* Direct calls of the encoder with edge-case arguments: empty texts,      *)
(* texts to escape, texts wider than the page, and values that are not     *)
(* strings.                                                                *)
(***************************************************************************)
LongLen == 161

LongText == [i \in 1..LongLen |-> 97]

EdgeTexts == {<<>>, <<97>>, <<LPAREN, BACKSLASH>>, LongText}

EdgeValues == {JsString(s) : s \in EdgeTexts} \cup {JsNumber(7), JsUndefined}

EdgeArgs ==
  { Args(n, c, d, i) : n \in EdgeValues, c \in EdgeValues,
                       d \in {JsString(<<>>), JsString(LongText), JsNumber(7)},
                       i \in {JsString(<<>>), JsString(LongText), JsUndefined} }

InitEdge ==
  /\ queue = <<>>
  /\ InitLocals
  /\ NoPageMounted
  /\ InitEscapeIdle
  /\ asked \in { <<a>> : a \in EdgeArgs }
  /\ calls = <<>>
  /\ NoRequestReceived

\* a caller invokes generateCertificatePDF(asked[0]) and keeps the outcome
DirectCall ==
  /\ asked # <<>>
  /\ calls' = Append(calls, [args |-> Head(asked), outcome |-> callEncoder(Head(asked))])
  /\ asked' = Tail(asked)
  /\ UNCHANGED <<encVars, escVars, postVars, pageVars>>

NextEdge == DirectCall

SpecEdge == InitEdge /\ [][NextEdge]_vars

(***************************************************************************)
(* Built-ins of the JavaScript runtime that the POST handler uses.         *)
(***************************************************************************)
\* the || operator: the left value unless it is falsy
Truthy(v) ==
  CASE v.t = "string" -> v.s # <<>>
    [] v.t = "number" -> v.n # 0
    [] v.t \in {"object", "array"} -> TRUE
    [] v.t = "boolean" -> v.b
    [] OTHER -> FALSE

Or(v, dflt) == IF Truthy(v) THEN v ELSE dflt

\* property access p.f on a parsed JSON value that is neither null nor
\* undefined: a primitive has none of the fields
Get(p, f) == IF p.t = "object" THEN p[f] ELSE JsUndefined

\* the instants the clock can show: the last millisecond of 29 Feb 2024
\* and the first of 1 Mar 2024 (UTC), as days since the epoch and
\* milliseconds of the day
Instants == << [day |-> 19782, ms |-> 86399999], [day |-> 19783, ms |-> 0] >>

\* new Date().toISOString().split('T')[0]: the UTC calendar date of a day
\* count, as YYYY-MM-DD
toISODate(day) ==
  LET z == day + 719468
      era == z \div 146097
      doe == z - era * 146097
      yoe == (doe - doe \div 1460 + doe \div 36524 - doe \div 146096) \div 365
      doy == doe - (365 * yoe + yoe \div 4 - yoe \div 100)
      mp == (5 * doy + 2) \div 153
      d == doy - (153 * mp + 2) \div 5 + 1
      mo == IF mp < 10 THEN mp + 3 ELSE mp - 9
      y == yoe + era * 400 + (IF mo <= 2 THEN 1 ELSE 0)
  IN Cat(<<padStart(Dec(y), 4, ZERO), Str("-"), padStart(Dec(mo), 2, ZERO),
           Str("-"), padStart(Dec(d), 2, ZERO)>>)

\* `${Date.now()}`: milliseconds since the epoch in decimal; the number
\* is written in two parts of which the lower has five digits
DateNow(t) ==
  LET hi == t.day * 864 + t.ms \div 100000
      lo == t.ms % 100000
  IN IF hi = 0 THEN Dec(lo) ELSE Dec(hi) \o padStart(Dec(lo), 5, ZERO)

base64Alphabet == Str("ABCDEFGHIJKLMNOPQRSTUVWXYZabcdefghijklmnopqrstuvwxyz0123456789+/")

PAD == CodeOf["="]

\* the mistake of leaving out the padding characters
base64Unpadded(buf) ==
  LET n == Len(buf)
      byte(k) == IF k <= n THEN buf[k] ELSE 0
      triple(g) == byte(3 * g + 1) * 65536 + byte(3 * g + 2) * 256 + byte(3 * g + 3)
      sextet(g, j) == (triple(g) \div (64 ^ (3 - j))) % 64
  IN [i \in 1..((4 * n + 2) \div 3) |->
        base64Alphabet[sextet((i - 1) \div 4, (i - 1) % 4) + 1]]

\* Buffer.prototype.toString('base64'): three bytes become four characters,
\* an incomplete last group is filled with '='
base64(buf) ==
  LET n == Len(buf)
      byte(k) == IF k <= n THEN buf[k] ELSE 0
      triple(g) == byte(3 * g + 1) * 65536 + byte(3 * g + 2) * 256 + byte(3 * g + 3)
      sextet(g, j) == (triple(g) \div (64 ^ (3 - j))) % 64
  IN [i \in 1..(4 * ((n + 2) \div 3)) |->
        LET g == (i - 1) \div 4
            j == (i - 1) % 4
        IN IF 3 * g + j > n THEN PAD ELSE base64Alphabet[sextet(g, j) + 1]]

IsAlnum(c) ==
  \/ c >= CodeOf["a"] /\ c <= CodeOf["z"]
  \/ c >= CodeOf["A"] /\ c <= CodeOf["Z"]
  \/ c >= ZERO /\ c <= ZERO + 9

UNDERSCORE == CodeOf["_"]

\* the mistake of leaving out the g flag: only the first match is replaced
sanitizeFirstOnly(s) ==
  [i \in 1..Len(s) |->
     IF ~IsAlnum(s[i]) /\ (\A j \in 1..(i - 1) : IsAlnum(s[j])) THEN UNDERSCORE ELSE s[i]]

\* s.replace(/[^a-zA-Z0-9]/g, '_'): without the u flag the pattern
\* matches single UTF-16 code units
sanitize(s) == [i \in 1..Len(s) |-> IF IsAlnum(s[i]) THEN s[i] ELSE UNDERSCORE]

(***************************************************************************)
(* The POST handler, route.ts 238-292: one action per block between the    *)
(* places where it can return.  The body of the HTTP request is any JSON   *)
(* value, or text that is not JSON.                                        *)
(***************************************************************************)
\* largest number of entries of an explored participants array
MaxBatch == 2

Unparsable == [t |-> "invalid"]

JsArray(items) == [t |-> "array", items |-> items]

JsonBody(p) == [t |-> "object", participants |-> p]

Participant(n, e, c, d, i) ==
  [t |-> "object", name |-> n, email |-> e, course |-> c, date |-> d, certificate_id |-> i]

\* the explored entries: everything missing; an empty name; a name with a
\* space, a parenthesis, an accented letter and a surrogate pair; the same
\* with a number for the date and an empty id; a number for the name; a
\* number for the course; and null in place of the entry
PostEntries ==
  LET email == JsString(Str("a@b.co"))
      name == JsString(Str("A (") \o <<233, 55357, 56832>>)
      course == JsString(Str("React"))
      date == JsString(Str("2025-01-15"))
      id == JsString(Str("CERT-1"))
  IN { Participant(JsUndefined, email, JsUndefined, JsUndefined, JsUndefined),
       Participant(JsString(<<>>), email, course, date, id),
       Participant(name, email, course, date, id),
       Participant(name, JsUndefined, JsString(Str("C")), JsNumber(7), JsString(<<>>)),
       Participant(JsNumber(7), email, course, date, id),
       Participant(name, email, JsNumber(7), JsUndefined, id),
       JsNull }

PostBodies ==
  {Unparsable, JsNull, JsNumber(7), JsonBody(JsUndefined), JsonBody(JsNull),
   JsonBody(JsString(Str("ab"))), JsonBody(JsArray(<<>>))}
    \cup { JsonBody(JsArray(items)) :
             items \in UNION { [1..k -> PostEntries] : k \in 1..MaxBatch } }

InitPost ==
  /\ queue = <<>>
  /\ InitLocals
  /\ NoPageMounted
  /\ InitEscapeIdle
  /\ NoDirectCalls
  /\ request \in PostBodies
  /\ step = "received"
  /\ jsonBody = JsUndefined
  /\ participants = <<>>
  /\ certificates = <<>>
  /\ response = JsUndefined
  /\ caught = JsUndefined
  /\ now = 1

SyntaxError(message) == [t |-> "Error", name |-> "SyntaxError", message |-> Str(message)]

\* the mistake of answering every exception with the fixed message
errorMsgFixed(error) == Str("PDF generation failed")

\* route.ts 286: error instanceof Error ? error.message : 'PDF generation failed'
errorMsg(error) ==
  IF error.t = "Error" THEN error.message ELSE Str("PDF generation failed")

\* the mistake of answering with the certificates encoded before the error
CaughtAnswersPartial(error) ==
  /\ caught' = error
  /\ response' = [status |-> 200,
                  json |-> [success |-> TRUE, total |-> Len(certificates),
                            certificates |-> certificates]]
  /\ step' = "responded"

\* route.ts 285-290: the catch block
Caught(error) ==
  /\ caught' = error
  /\ response' = [status |-> 500, json |-> [success |-> FALSE, error |-> errorMsg(error)]]
  /\ step' = "responded"

\* route.ts 240: await request.json()
ReadBody ==
  /\ step = "received"
  /\ IF request = Unparsable
     THEN /\ Caught(SyntaxError("Unexpected end of JSON input"))
          /\ UNCHANGED jsonBody
     ELSE /\ jsonBody' = request
          /\ step' = "parsed"
          /\ UNCHANGED <<response, caught>>
  /\ UNCHANGED <<pageVars, encVars, escVars, callVars, request, participants, certificates, now>>

\* route.ts 241-258: the destructuring, the check of participants and the
\* empty certificates array
Validate ==
  /\ step = "parsed"
  /\ IF jsonBody.t \in {"null", "undefined"}
     THEN /\ Caught(TypeError("Cannot destructure property 'participants' of 'body' as it is null."))
          /\ UNCHANGED <<participants, certificates>>
     ELSE LET p == Get(jsonBody, "participants")
          IN IF p.t # "array" \/ Len(p.items) = 0
             THEN /\ response' = [status |-> 400,
                                  json |-> [success |-> FALSE,
                                            error |-> Str("participants array is required")]]
                  /\ step' = "responded"
                  /\ UNCHANGED <<participants, certificates, caught>>
             ELSE /\ participants' = p.items
                  /\ certificates' = <<>>
                  /\ step' = "loop"
                  /\ UNCHANGED <<response, caught>>
  /\ UNCHANGED <<pageVars, encVars, escVars, callVars, request, jsonBody, now>>

\* the mistake of reporting the values that were printed: the defaults in
\* place of a missing or empty name and course
certificateEntryWithDefaults(p, pdfBuffer) ==
  LET sanitizedName == sanitize(Or(Get(p, "name"), JsString(Str("certificate"))).s)
  IN [name |-> Or(Get(p, "name"), JsString(Str("Participant"))),
      email |-> Get(p, "email"),
      course |-> Or(Get(p, "course"), JsString(Str("Course"))),
      date |-> Get(p, "date"),
      certificate_id |-> Get(p, "certificate_id"),
      pdf_base64 |-> base64(pdfBuffer),
      filename |-> Cat(<<Str("Certificate_"), sanitizedName, Str(".pdf")>>)]

\* route.ts 268-277: the sanitized name and the object pushed for an
\* entry p whose PDF is pdfBuffer
certificateEntry(p, pdfBuffer) ==
  LET sanitizedName == sanitize(Or(Get(p, "name"), JsString(Str("certificate"))).s)
  IN [name |-> Get(p, "name"),
      email |-> Get(p, "email"),
      course |-> Get(p, "course"),
      date |-> Get(p, "date"),
      certificate_id |-> Get(p, "certificate_id"),
      pdf_base64 |-> base64(pdfBuffer),
      filename |-> Cat(<<Str("Certificate_"), sanitizedName, Str(".pdf")>>)]

\* route.ts 260-278: one round of for (const p of participants); the clock
\* is read for the date and then for the certificate id, only when the
\* entry gives none
EncodeEntry ==
  /\ step = "loop"
  /\ Len(certificates) < Len(participants)
  /\ LET p == participants[Len(certificates) + 1]
     IN IF p.t \in {"null", "undefined"}
        THEN /\ Caught(TypeError("Cannot read properties of null (reading 'name')"))
             /\ UNCHANGED <<calls, certificates, now>>
        ELSE \E t1 \in (IF Truthy(Get(p, "date")) THEN {now} ELSE now..Len(Instants)) :
             \E t2 \in (IF Truthy(Get(p, "certificate_id")) THEN {t1} ELSE t1..Len(Instants)) :
               LET args == Args(Or(Get(p, "name"), JsString(Str("Participant"))),
                                Or(Get(p, "course"), JsString(Str("Course"))),
                                Or(Get(p, "date"), JsString(toISODate(Instants[t1].day))),
                                Or(Get(p, "certificate_id"),
                                   JsString(Str("CERT-") \o DateNow(Instants[t2]))))
                   outcome == callEncoder(args)
               IN /\ calls' = Append(calls, [args |-> args, outcome |-> outcome])
                  /\ now' = t2
                  /\ IF outcome.t = "throw"
                     THEN /\ Caught(outcome.error)
                          /\ UNCHANGED certificates
                     ELSE /\ certificates' =
                               Append(certificates, certificateEntry(p, outcome.buffer))
                          /\ UNCHANGED <<step, response, caught>>
  /\ UNCHANGED <<pageVars, encVars, escVars, asked, request, jsonBody, participants>>

\* route.ts 280-284: the answer after the loop
Respond ==
  /\ step = "loop"
  /\ Len(certificates) = Len(participants)
  /\ response' = [status |-> 200,
                  json |-> [success |-> TRUE, total |-> Len(certificates),
                            certificates |-> certificates]]
  /\ step' = "responded"
  /\ UNCHANGED <<pageVars, encVars, escVars, callVars, request, jsonBody, participants,
                 certificates, caught, now>>

NextPost ==
  \/ ReadBody
  \/ Validate
  \/ EncodeEntry
  \/ Respond

SpecPost == InitPost /\ [][NextPost]_vars

(***************************************************************************)
(* JSON.parse: the JSON grammar of ECMA-404 read by recursive descent.     *)
(* A parsed object is the function from its keys to their values (a later  *)
(* duplicate key replaces an earlier one).                                 *)
(***************************************************************************)
JsBoolean(b) == [t |-> "boolean", b |-> b]

JsObject(fields) == [t |-> "object", fields |-> fields]

LBRACE == CodeOf["{"]
RBRACE == CodeOf["}"]
LBRACKET == CodeOf["["]
RBRACKET == CodeOf["]"]
QUOTE == CodeOf["\""]
COLON == CodeOf[":"]
COMMA == CodeOf[","]
MINUS == CodeOf["-"]

NoParse == [ok |-> FALSE]

Parsed(v, next) == [ok |-> TRUE, value |-> v, next |-> next]

IsWhitespace(c) == c \in {32, 9, 10, 13}

\* the first place at or after i that holds no whitespace
RECURSIVE SkipWhitespace(_, _)
SkipWhitespace(s, i) ==
  IF i <= Len(s) /\ IsWhitespace(s[i]) THEN SkipWhitespace(s, i + 1) ELSE i

IsDecimalDigit(c) == c >= ZERO /\ c <= ZERO + 9

\* the first place at or after i that holds no digit
RECURSIVE SkipDigits(_, _)
SkipDigits(s, i) ==
  IF i <= Len(s) /\ IsDecimalDigit(s[i]) THEN SkipDigits(s, i + 1) ELSE i

\* the value of the digits s[i..j-1]
RECURSIVE DigitsValue(_, _, _)
DigitsValue(s, i, j) ==
  IF i >= j THEN 0 ELSE DigitsValue(s, i, j - 1) * 10 + (s[j - 1] - ZERO)

HexValue(c) ==
  CASE c >= ZERO /\ c <= ZERO + 9 -> c - ZERO
    [] c >= CodeOf["a"] /\ c <= CodeOf["f"] -> c - CodeOf["a"] + 10
    [] c >= CodeOf["A"] /\ c <= CodeOf["F"] -> c - CodeOf["A"] + 10
    [] OTHER -> 0 - 1

\* the code unit of a two-character escape, -1 for none
EscapeValue(c) ==
  CASE c = QUOTE -> QUOTE
    [] c = BACKSLASH -> BACKSLASH
    [] c = CodeOf["/"] -> CodeOf["/"]
    [] c = CodeOf["b"] -> 8
    [] c = CodeOf["f"] -> 12
    [] c = CodeOf["n"] -> 10
    [] c = CodeOf["r"] -> 13
    [] c = CodeOf["t"] -> 9
    [] OTHER -> 0 - 1

\* a string whose opening quote stands before place i
RECURSIVE ReadJsonString(_, _, _)
ReadJsonString(s, i, acc) ==
  IF i > Len(s) THEN NoParse
  ELSE IF s[i] = QUOTE THEN Parsed([t |-> "string", s |-> acc], i + 1)
  ELSE IF s[i] < 32 THEN NoParse
  ELSE IF s[i] # BACKSLASH THEN ReadJsonString(s, i + 1, Append(acc, s[i]))
  ELSE IF i + 1 > Len(s) THEN NoParse
  ELSE IF EscapeValue(s[i + 1]) >= 0
    THEN ReadJsonString(s, i + 2, Append(acc, EscapeValue(s[i + 1])))
  ELSE IF /\ s[i + 1] = CodeOf["u"]
          /\ i + 5 <= Len(s)
          /\ \A k \in 2..5 : HexValue(s[i + k]) >= 0
    THEN ReadJsonString(s, i + 6,
           Append(acc, HexValue(s[i + 2]) * 4096 + HexValue(s[i + 3]) * 256
                         + HexValue(s[i + 4]) * 16 + HexValue(s[i + 5])))
  ELSE NoParse

\* a number at place i: -? (0 | 1-9 digits) (. digits)? ((e|E) (+|-)? digits)?
\* read part by part; the value of a number with a fraction or an
\* exponent is kept as its integer part and the text of the rest
NumberValue(s, neg, d, intEnd, last) ==
  IF last = intEnd
  THEN Parsed([t |-> "number", n |-> (IF neg THEN 0 - 1 ELSE 1) * DigitsValue(s, d, intEnd)],
              intEnd)
  ELSE Parsed([t |-> "number", n |-> (IF neg THEN 0 - 1 ELSE 1) * DigitsValue(s, d, intEnd),
               rest |-> SubSeq(s, intEnd, last - 1)], last)

ExponentDigits(s, neg, d, intEnd, expFrom, expEnd) ==
  IF expEnd = expFrom THEN NoParse ELSE NumberValue(s, neg, d, intEnd, expEnd)

Exponent(s, neg, d, intEnd, expFrom) ==
  ExponentDigits(s, neg, d, intEnd, expFrom, SkipDigits(s, expFrom))

NumberExponent(s, neg, d, intEnd, fracEnd) ==
  IF fracEnd <= Len(s) /\ s[fracEnd] \in {CodeOf["e"], CodeOf["E"]}
  THEN Exponent(s, neg, d, intEnd,
                IF fracEnd + 1 <= Len(s) /\ s[fracEnd + 1] \in {CodeOf["+"], MINUS}
                THEN fracEnd + 2 ELSE fracEnd + 1)
  ELSE NumberValue(s, neg, d, intEnd, fracEnd)

FractionDigits(s, neg, d, intEnd, fracEnd) ==
  IF fracEnd = intEnd + 1 THEN NoParse ELSE NumberExponent(s, neg, d, intEnd, fracEnd)

NumberFraction(s, neg, d, intEnd) ==
  IF intEnd = d THEN NoParse
  ELSE IF intEnd <= Len(s) /\ s[intEnd] = CodeOf["."]
    THEN FractionDigits(s, neg, d, intEnd, SkipDigits(s, intEnd + 1))
  ELSE NumberExponent(s, neg, d, intEnd, intEnd)

NumberInteger(s, neg, d) ==
  NumberFraction(s, neg, d, IF d <= Len(s) /\ s[d] = ZERO THEN d + 1 ELSE SkipDigits(s, d))

ReadJsonNumber(s, i) == NumberInteger(s, s[i] = MINUS, IF s[i] = MINUS THEN i + 1 ELSE i)

\* the word w stands at place i
WordAt(s, i, w) == i + Len(w) - 1 <= Len(s) /\ SubSeq(s, i, i + Len(w) - 1) = w

RECURSIVE ReadJsonValue(_, _)
RECURSIVE ReadJsonMembers(_, _, _)
RECURSIVE ReadJsonElements(_, _, _)

\* fields with the member name -> v added or replaced
PutField(fields, name, v) ==
  [k \in DOMAIN fields \cup {name} |-> IF k = name THEN v ELSE fields[k]]

\* after a member: "}" ends the object, "," brings the next member
MemberNext(s, e, fields) ==
  IF e > Len(s) THEN NoParse
  ELSE IF s[e] = RBRACE THEN Parsed(JsObject(fields), e + 1)
  ELSE IF s[e] = COMMA THEN ReadJsonMembers(s, SkipWhitespace(s, e + 1), fields)
  ELSE NoParse

MemberEnd(s, name, v, fields) ==
  IF ~v.ok THEN NoParse
  ELSE MemberNext(s, SkipWhitespace(s, v.next), PutField(fields, name, v.value))

MemberValue(s, name, c, fields) ==
  IF c > Len(s) \/ s[c] # COLON THEN NoParse
  ELSE MemberEnd(s, name, ReadJsonValue(s, SkipWhitespace(s, c + 1)), fields)

MemberColon(s, key, fields) ==
  IF ~key.ok THEN NoParse
  ELSE MemberValue(s, key.value.s, SkipWhitespace(s, key.next), fields)

\* the members of an object from place i, which follows "{" or ","
ReadJsonMembers(s, i, fields) ==
  IF i > Len(s) \/ s[i] # QUOTE THEN NoParse
  ELSE MemberColon(s, ReadJsonString(s, i + 1, <<>>), fields)

\* after an element: "]" ends the array, "," brings the next element
ElementNext(s, e, items) ==
  IF e > Len(s) THEN NoParse
  ELSE IF s[e] = RBRACKET THEN Parsed(JsArray(items), e + 1)
  ELSE IF s[e] = COMMA THEN ReadJsonElements(s, SkipWhitespace(s, e + 1), items)
  ELSE NoParse

ElementEnd(s, v, items) ==
  IF ~v.ok THEN NoParse
  ELSE ElementNext(s, SkipWhitespace(s, v.next), Append(items, v.value))

\* the elements of an array from place i, which follows "[" or ","
ReadJsonElements(s, i, items) == ElementEnd(s, ReadJsonValue(s, i), items)

ObjectFrom(s, j) ==
  IF j <= Len(s) /\ s[j] = RBRACE THEN Parsed(JsObject(<<>>), j + 1)
  ELSE ReadJsonMembers(s, j, <<>>)

ArrayFrom(s, j) ==
  IF j <= Len(s) /\ s[j] = RBRACKET THEN Parsed(JsArray(<<>>), j + 1)
  ELSE ReadJsonElements(s, j, <<>>)

\* the value that starts at place i, and the place after it
ReadJsonValue(s, i) ==
  IF i > Len(s) THEN NoParse
  ELSE IF s[i] = LBRACE THEN ObjectFrom(s, SkipWhitespace(s, i + 1))
  ELSE IF s[i] = LBRACKET THEN ArrayFrom(s, SkipWhitespace(s, i + 1))
  ELSE IF s[i] = QUOTE THEN ReadJsonString(s, i + 1, <<>>)
  ELSE IF s[i] = MINUS \/ IsDecimalDigit(s[i]) THEN ReadJsonNumber(s, i)
  ELSE IF WordAt(s, i, Str("true")) THEN Parsed(JsBoolean(TRUE), i + 4)
  ELSE IF WordAt(s, i, Str("false")) THEN Parsed(JsBoolean(FALSE), i + 5)
  ELSE IF WordAt(s, i, Str("null")) THEN Parsed(JsNull, i + 4)
  ELSE NoParse

WholeText(s, v) ==
  IF v.ok /\ SkipWhitespace(s, v.next) = Len(s) + 1
  THEN [t |-> "return", value |-> v.value]
  ELSE [t |-> "throw", error |-> SyntaxError("Unexpected token in JSON")]

\* JSON.parse(text): the value of a text that is one JSON value between
\* optional whitespace; anything else raises a SyntaxError
JSONparse(s) == WholeText(s, ReadJsonValue(s, SkipWhitespace(s, 1)))

(***************************************************************************)
(* parseAgentResponse, route.ts 372-385.                                   *)
(***************************************************************************)
\* longest string explored as the result of an agent response
MaxResultLen == 5

Error(message) == [t |-> "Error", name |-> "Error", message |-> Str(message)]

\* the ?. operator: undefined for a base that is null or undefined
OptionalGet(p, f) == IF p.t \in {"null", "undefined"} THEN JsUndefined ELSE Get(p, f)

\* the mistake of a lazy quantifier: the span ends at the first "}"
matchBracesLazy(s) ==
  LET starts == {i \in 1..Len(s) : s[i] = LBRACE /\ \E j \in (i + 1)..Len(s) : s[j] = RBRACE}
  IN IF starts = {} THEN JsNull
     ELSE LET i == CHOOSE x \in starts : \A y \in starts : x <= y
              ends == {j \in (i + 1)..Len(s) : s[j] = RBRACE}
              j == CHOOSE x \in ends : \A y \in ends : x <= y
          IN JsString(SubSeq(s, i, j))

\* rawResult.match(/\{[\s\S]*\}/): the leftmost "{" that some "}" follows,
\* and everything up to the last "}" (the quantifier is greedy); null when
\* there is none
matchBraces(s) ==
  LET starts == {i \in 1..Len(s) : s[i] = LBRACE /\ \E j \in (i + 1)..Len(s) : s[j] = RBRACE}
  IN IF starts = {} THEN JsNull
     ELSE LET i == CHOOSE x \in starts : \A y \in starts : x <= y
              ends == {j \in (i + 1)..Len(s) : s[j] = RBRACE}
              j == CHOOSE x \in ends : \A y \in ends : x >= y
          IN JsString(SubSeq(s, i, j))

\* route.ts 379-381: the catch block of the first JSON.parse
parseMatch(match) ==
  IF match # JsNull THEN JSONparse(match.s)
  ELSE [t |-> "throw", error |-> Error("Could not parse agent response")]

\* route.ts 375-382
parseText(text0, whole) ==
  IF whole.t = "return" THEN whole ELSE parseMatch(matchBraces(text0))

parseRawResult(rawResult) ==
  IF ~Truthy(rawResult)
    THEN [t |-> "throw", error |-> Error("No result in agent response")]
  ELSE IF rawResult.t = "string" THEN parseText(rawResult.s, JSONparse(rawResult.s))
  ELSE [t |-> "return", value |-> rawResult]

parseAgentResponse(res) ==
  parseRawResult(OptionalGet(OptionalGet(res, "response"), "result"))

\* the response of an agent call as the caller receives it
AgentResponse(rawResult) ==
  [t |-> "object", response |-> [t |-> "object", result |-> rawResult]]

ResultAlphabet == {LBRACE, RBRACE, QUOTE, COLON, CodeOf["a"], CodeOf["1"]}

\* results that are texts: every text over the alphabet up to the bound,
\* and texts with an object alone, between words, between whitespace,
\* nested, followed by a stray brace, twice, and with other values
ResultTexts ==
  UNION { [1..k -> ResultAlphabet] : k \in 0..MaxResultLen }
    \cup { Str("{\"a\":1}"), Str("Here: {\"a\":1} ok"), Str(" {\"a\" : [1, true, null]} "),
           Str("{\"a\":{\"b\":\"}\"}} }"), Str("{\"a\":1}{\"a\":1}"), Str("x } {"),
           Str("0"), Str("null"), Str("-1.5e3"), Str("\"\\u0041\\n\""),
           Str("{\"a\":1,\"a\":2}"), Str("[{}]x") }

\* results that are not texts: missing, null, the numbers 0 and 7, the
\* booleans, an object and arrays
ResultValues ==
  { JsUndefined, JsNull, JsNumber(0), JsNumber(7), JsBoolean(FALSE), JsBoolean(TRUE),
    JsObject(<<>>), JsObject([k \in {Str("total")} |-> JsNumber(1)]),
    JsArray(<<>>), JsArray(<<JsNumber(1)>>) }

AgentResults ==
  { JsUndefined, JsNull, [t |-> "object", response |-> JsUndefined],
    [t |-> "object", response |-> JsNull], [t |-> "object", response |-> JsNumber(7)] }
    \cup { AgentResponse(v) : v \in ResultValues }
    \cup { AgentResponse(JsString(s)) : s \in ResultTexts }

NotCalled == [t |-> "pending"]

InitParse ==
  /\ queue = <<>>
  /\ InitLocals
  /\ InitEscapeIdle
  /\ NoDirectCalls
  /\ NoRequestReceived
  /\ Mounted(JsUndefined)
  /\ result \in AgentResults
  /\ parseOutcome = NotCalled

\* a handler calls parseAgentResponse(result)
ParseAgentResponse ==
  /\ parseOutcome = NotCalled
  /\ parseOutcome' = parseAgentResponse(result)
  /\ UNCHANGED <<encVars, escVars, callVars, postVars, result, stateVars, timerVars, runVars>>

NextParse == ParseAgentResponse

SpecParse == InitParse /\ [][NextParse]_vars

(***************************************************************************)
(* The page component, route.ts 710-1684: its state, the three agent       *)
(* handlers as asynchronous runs (one action per stretch between awaits),  *)
(* and the buttons that start them or move between the steps.  A state     *)
(* update is taken as committed with the stretch that makes it.            *)
(***************************************************************************)
DATA_VALIDATION_AGENT_ID == JsString(Str("699ad39b085cc6c072ca8fc7"))
CERTIFICATE_GENERATION_AGENT_ID == JsString(Str("699ad39b06cd1ed2fd6cb5a0"))
EMAIL_DISPATCH_AGENT_ID == JsString(Str("699ad3aef71d07b7b0d9e82d"))

\* route.ts 333-343: a certificate of a generation result
CertificateEntry(name, email, course, date, status, id) ==
  [participant_name |-> name, email |-> email, course |-> course, date |-> date,
   status |-> status, certificate_id |-> id, error_message |-> JsString(<<>>)]

GENERATED == JsString(Str("generated"))
FAILED == JsString(Str("failed"))
SENT == JsString(Str("sent"))

\* the number of entries of a list with the given status
CountStatus(items, status) == Cardinality({i \in 1..Len(items) : items[i].status = status})

\* route.ts 345-350
GenerationResult(certs) ==
  [t |-> "object", total |-> Len(certs), generated |-> CountStatus(certs, GENERATED),
   failed |-> CountStatus(certs, FAILED), certificates |-> JsArray(certs)]

\* route.ts 352-359
DeliveryEntry(name, email, status) ==
  [participant_name |-> name, email |-> email, status |-> status]

\* route.ts 361-366
DispatchResult(deliveries) ==
  [t |-> "object", total_sent |-> CountStatus(deliveries, SENT),
   total_failed |-> CountStatus(deliveries, FAILED), total_retried |-> 0,
   deliveries |-> JsArray(deliveries)]

\* route.ts 326-331, without the rows
ValidationResult(valid, invalid) ==
  [t |-> "object", total_rows |-> valid + invalid, valid_count |-> valid,
   invalid_count |-> invalid]

SAMPLE_VALIDATION == ValidationResult(4, 1)

SampleCertificate(name, email, course, date, id) ==
  CertificateEntry(JsString(Str(name)), JsString(Str(email)), JsString(Str(course)),
                   JsString(Str(date)), GENERATED, JsString(Str(id)))

SAMPLE_GENERATION ==
  GenerationResult(
    << SampleCertificate("Alice Johnson", "alice@example.com", "Advanced React",
                         "2025-01-15", "CERT-AJ-2025-001"),
       SampleCertificate("Bob Williams", "bob@example.com", "Advanced React",
                         "2025-01-15", "CERT-BW-2025-002"),
       SampleCertificate("Carol Davis", "carol@example.com", "Data Science Fundamentals",
                         "2025-01-20", "CERT-CD-2025-003"),
       SampleCertificate("David Chen", "david@example.com", "Data Science Fundamentals",
                         "2025-01-20", "CERT-DC-2025-004") >>)

SampleDelivery(name, email, status) ==
  DeliveryEntry(JsString(Str(name)), JsString(Str(email)), status)

SAMPLE_DISPATCH ==
  DispatchResult(
    << SampleDelivery("Alice Johnson", "alice@example.com", SENT),
       SampleDelivery("Bob Williams", "bob@example.com", SENT),
       SampleDelivery("Carol Davis", "carol@example.com", SENT),
       SampleDelivery("David Chen", "david@example.com", FAILED) >>)

\* route.ts 764-766
effectiveValidation ==
  IF showSampleData /\ ~Truthy(validationResult) THEN SAMPLE_VALIDATION ELSE validationResult

effectiveGeneration ==
  IF showSampleData /\ ~Truthy(generationResult) THEN SAMPLE_GENERATION ELSE generationResult

effectiveDispatch ==
  IF showSampleData /\ ~Truthy(dispatchResult) THEN SAMPLE_DISPATCH ELSE dispatchResult

\* route.ts 1054-1062: v?.f ?? 0 for a count
CountOf(v, f) == IF v.t = "object" THEN v[f] ELSE 0

validCount == CountOf(effectiveValidation, "valid_count")
generatedCount == CountOf(effectiveGeneration, "generated")
failedDispCount == CountOf(effectiveDispatch, "total_failed")
hasFailedDeliveries == failedDispCount > 0

\* Array.isArray(v?.f) ? v.f : []
ArrayOf(v, f) == IF v.t = "object" /\ v[f].t = "array" THEN v[f].items ELSE <<>>

Nullish(v) == v.t \in {"null", "undefined"}

\* the ?? operator
Coalesce(v, dflt) == IF Nullish(v) THEN dflt ELSE v

(***************************************************************************)
(* What a call of an agent can come to.                                    *)
(***************************************************************************)
\* the value callAIAgent resolves with
AgentResult(success, error, rawResult) ==
  [t |-> "object", success |-> JsBoolean(success), error |-> error,
   response |-> [t |-> "object", message |-> JsUndefined, result |-> rawResult]]

\* the call is rejected; the agent reports a failure with and without a
\* message; it reports success with a text that holds no JSON, and with
\* the answer of this world
Settlements(answer) ==
  { [t |-> "throw", error |-> Error("Failed to fetch")],
    [t |-> "return", value |-> AgentResult(FALSE, JsString(Str("Agent unavailable")), JsUndefined)],
    [t |-> "return", value |-> AgentResult(FALSE, JsUndefined, JsUndefined)],
    [t |-> "return", value |-> AgentResult(TRUE, JsUndefined, JsString(Str("Sorry.")))],
    [t |-> "return", value |-> AgentResult(TRUE, JsUndefined, answer)] }

\* result?.error ?? result?.response?.message ?? dflt
errorOf(res, dflt) ==
  Coalesce(OptionalGet(res, "error"),
           Coalesce(OptionalGet(OptionalGet(res, "response"), "message"), JsString(dflt))).s

\* route.ts 864-872, 903-951, 1026-1034: what a handler does with a settled
\* agent call: the parsed result, or the error message it sets
afterAgent(settled, dflt) ==
  IF settled.t = "throw" THEN [ok |-> FALSE, error |-> settled.error.message]
  ELSE IF Truthy(OptionalGet(settled.value, "success"))
    THEN LET p == parseAgentResponse(settled.value)
         IN IF p.t = "throw" THEN [ok |-> FALSE, error |-> p.error.message]
            ELSE [ok |-> TRUE, parsed |-> p.value]
  ELSE [ok |-> FALSE, error |-> errorOf(settled.value, dflt)]

\* nothing but the page changes
OnlyThePage == UNCHANGED <<encVars, escVars, callVars, postVars, parseVars>>

(***************************************************************************)
(* Sample data, file choice and the steps of the wizard.                   *)
(***************************************************************************)
\* route.ts 1082: the sample switch
ToggleSampleData ==
  /\ showSampleData' = ~showSampleData
  /\ UNCHANGED <<currentStep, completedSteps, excelFile, validationResult, generationResult,
                 dispatchResult, isValidating, isGenerating, isDispatching,
                 generationProgress, errorMessage, activeAgentId, timerVars, runVars>>
  /\ OnlyThePage

FileExtensions == {"csv", "xlsx", "txt"}

\* route.ts 782-812: a file is dropped or selected on step 0
handleFile(extension) ==
  /\ currentStep = 0
  /\ excelFile' = JsString(Str("participants.") \o Str(extension))
  /\ validationResult' = JsNull
  /\ errorMessage' =
       CASE extension = "csv" -> <<>>
         [] extension \in {"xlsx", "xls"} ->
              Str("XLSX detected. The file will be sent directly to the validation agent for processing. For client-side preview, please use CSV format.")
         [] OTHER -> Str("Please upload a .csv or .xlsx file.")
  /\ UNCHANGED <<currentStep, completedSteps, showSampleData, generationResult,
                 dispatchResult, isValidating, isGenerating, isDispatching,
                 generationProgress, activeAgentId, timerVars, runVars>>
  /\ OnlyThePage

HandleFile == \E extension \in FileExtensions : handleFile(extension)

\* route.ts 1041-1044
goToStep(to) ==
  /\ errorMessage' = <<>>
  /\ currentStep' = to

Includes(items, x) == \E i \in 1..Len(items) : items[i] = x

\* the mistake of recording the step without looking whether it is there
completeStepAgain(done0) ==
  /\ completedSteps' = Append(completedSteps, done0)
  /\ goToStep(done0 + 1)

\* route.ts 1046-1051
completeStepAndAdvance(done0) ==
  /\ completedSteps' = IF ~Includes(completedSteps, done0) THEN Append(completedSteps, done0)
                       ELSE completedSteps
  /\ goToStep(done0 + 1)

NavigationFrame ==
  /\ UNCHANGED <<showSampleData, excelFile, validationResult, generationResult,
                 dispatchResult, isValidating, isGenerating, isDispatching,
                 generationProgress, activeAgentId, timerVars, runVars>>
  /\ OnlyThePage

\* route.ts 1270, 1321-1332: Proceed to Generate
ProceedToGenerate ==
  /\ currentStep = 0
  /\ Truthy(effectiveValidation) /\ ~isValidating
  /\ validCount > 0
  /\ completeStepAndAdvance(0)
  /\ NavigationFrame

\* route.ts 1397, 1474-1485: Send Certificates
ProceedToSend ==
  /\ currentStep = 1
  /\ Truthy(effectiveGeneration) /\ ~isGenerating
  /\ generatedCount > 0
  /\ completeStepAndAdvance(1)
  /\ NavigationFrame

\* route.ts 1489-1494: Back to Upload
BackToUpload ==
  /\ currentStep = 1
  /\ goToStep(0)
  /\ UNCHANGED completedSteps
  /\ NavigationFrame

\* route.ts 1670-1675: Back to Generation
BackToGeneration ==
  /\ currentStep = 2
  /\ goToStep(1)
  /\ UNCHANGED completedSteps
  /\ NavigationFrame

(***************************************************************************)
(* handleValidate, route.ts 834-876.                                       *)
(***************************************************************************)
\* route.ts 1244-1258, 834-850: the Validate button; the run stops at the
\* upload of the file when there is one, else at the agent call
HandleValidate ==
  /\ currentStep = 0
  /\ ~isValidating
  /\ showSampleData \/ Truthy(excelFile)
  /\ isValidating' = TRUE
  /\ errorMessage' = <<>>
  /\ activeAgentId' = DATA_VALIDATION_AGENT_ID
  /\ validating' = IF Truthy(excelFile) THEN "upload" ELSE "agent"
  /\ UNCHANGED <<currentStep, completedSteps, showSampleData, excelFile, validationResult,
                 generationResult, dispatchResult, isGenerating, isDispatching,
                 generationProgress, timerVars, generating, dispatching, parsed, pdfRes,
                 dispatchMessage, world>>
  /\ OnlyThePage

\* route.ts 873-875: the finally block
FinallyValidate ==
  /\ isValidating' = FALSE
  /\ activeAgentId' = JsNull
  /\ validating' = "idle"

\* route.ts 850-861: uploadFiles settles
UploadSettles ==
  /\ validating = "upload"
  /\ \/ /\ validating' = "agent"
        /\ UNCHANGED <<errorMessage, isValidating, activeAgentId>>
     \/ /\ errorMessage' = Error("Failed to fetch").message
        /\ FinallyValidate
  /\ UNCHANGED <<currentStep, completedSteps, showSampleData, excelFile, validationResult,
                 generationResult, dispatchResult, isGenerating, isDispatching,
                 generationProgress, timerVars, generating, dispatching, parsed, pdfRes,
                 dispatchMessage, world>>
  /\ OnlyThePage

\* route.ts 862-875: the validation agent's call settles
ValidationSettles ==
  /\ validating = "agent"
  /\ \E settled \in Settlements(world.validation) :
       LET a == afterAgent(settled, Str("Validation failed. Please try again."))
       IN IF a.ok THEN /\ validationResult' = a.parsed
                       /\ UNCHANGED errorMessage
          ELSE /\ errorMessage' = a.error
               /\ UNCHANGED validationResult
  /\ FinallyValidate
  /\ UNCHANGED <<currentStep, completedSteps, showSampleData, excelFile,
                 generationResult, dispatchResult, isGenerating, isDispatching,
                 generationProgress, timerVars, generating, dispatching, parsed, pdfRes,
                 dispatchMessage, world>>
  /\ OnlyThePage

(***************************************************************************)
(* handleGenerate, route.ts 879-959.                                       *)
(***************************************************************************)
\* setInterval: an id that no running interval has
FreshInterval == CHOOSE id \in 1..(Cardinality(intervals) + 1) : id \notin intervals

\* route.ts 1357-1370, 879-901: the Generate button
HandleGenerate ==
  /\ currentStep = 1
  /\ ~Truthy(effectiveGeneration)
  /\ ~isGenerating
  /\ isGenerating' = TRUE
  /\ errorMessage' = <<>>
  /\ generationProgress' = 0
  /\ activeAgentId' = CERTIFICATE_GENERATION_AGENT_ID
  /\ progressIntervalRef' = FreshInterval
  /\ intervals' = intervals \cup {FreshInterval}
  /\ generating' = "agent"
  /\ UNCHANGED <<currentStep, completedSteps, showSampleData, excelFile, validationResult,
                 generationResult, dispatchResult, isValidating, isDispatching,
                 validating, dispatching, parsed, pdfRes, dispatchMessage, world>>
  /\ OnlyThePage

\* route.ts 885-890: a tick of a running interval; Math.random() * 12 is
\* taken as 0 or 11
ProgressTick ==
  /\ intervals # {}
  /\ \E step0 \in {0, 11} :
       generationProgress' = IF generationProgress >= 90 THEN generationProgress
                             ELSE generationProgress + step0
  /\ UNCHANGED <<currentStep, completedSteps, showSampleData, excelFile, validationResult,
                 generationResult, dispatchResult, isValidating, isGenerating, isDispatching,
                 errorMessage, activeAgentId, timerVars, runVars>>
  /\ OnlyThePage

\* the mistake of leaving the interval running
FinallyGenerateKeepsInterval ==
  /\ UNCHANGED timerVars
  /\ isGenerating' = FALSE
  /\ activeAgentId' = JsNull
  /\ generating' = "idle"
  /\ parsed' = JsUndefined
  /\ pdfRes' = JsUndefined

\* route.ts 951-958: the finally block; the locals go out of scope
FinallyGenerate ==
  /\ IF progressIntervalRef # 0
     THEN /\ intervals' = intervals \ {progressIntervalRef}
          /\ progressIntervalRef' = 0
     ELSE UNCHANGED timerVars
  /\ isGenerating' = FALSE
  /\ activeAgentId' = JsNull
  /\ generating' = "idle"
  /\ parsed' = JsUndefined
  /\ pdfRes' = JsUndefined

IsGenerated(c) == c.status = GENERATED

\* route.ts 909-911
generatedCerts(p) == SelectSeq(ArrayOf(p, "certificates"), IsGenerated)

GenerateFrame ==
  /\ UNCHANGED <<currentStep, completedSteps, showSampleData, excelFile, validationResult,
                 dispatchResult, isValidating, isDispatching, validating, dispatching,
                 dispatchMessage, world>>
  /\ OnlyThePage

\* route.ts 944-945 and the finally block: the end of a run whose agent
\* call succeeded, with the result it stores
StoreGeneration(stored) ==
  /\ generationResult' = stored
  /\ generationProgress' = 100
  /\ UNCHANGED errorMessage
  /\ FinallyGenerate

\* route.ts 901-913, 944-958: the generation agent's call settles; with a
\* generated certificate in the result the run goes on to the PDF request
GenerationSettles ==
  /\ generating = "agent"
  /\ \E settled \in Settlements(world.generation) :
       LET a == afterAgent(settled, Str("Certificate generation failed."))
       IN IF ~a.ok
            THEN /\ errorMessage' = a.error
                 /\ UNCHANGED <<generationResult, generationProgress>>
                 /\ FinallyGenerate
          ELSE IF Len(generatedCerts(a.parsed)) > 0
            THEN /\ parsed' = a.parsed
                 /\ generationProgress' = 70
                 /\ generating' = "fetch"
                 /\ UNCHANGED <<generationResult, errorMessage, isGenerating, activeAgentId,
                                timerVars, pdfRes>>
          ELSE StoreGeneration(a.parsed)
  /\ GenerateFrame

\* route.ts 917-923: the entry sent to /api/generate-certificate for a
\* generated certificate
pdfParticipant(c) ==
  Participant(c.participant_name, c.email, c.course, c.date, c.certificate_id)

\* the PDF that the route prints for an entry, named by what it prints
PdfFor(p) ==
  [t |-> "pdf",
   name |-> Or(p.name, JsString(Str("Participant"))),
   course |-> Or(p.course, JsString(Str("Course"))),
   date |-> Or(p.date, JsString(Str("2025-01-15"))),
   certificate_id |-> Or(p.certificate_id, JsString(Str("CERT-1709251200000")))]

\* route.ts 269-277 as the browser reads it back
pdfEntry(p) ==
  [name |-> p.name, email |-> p.email, course |-> p.course, date |-> p.date,
   certificate_id |-> p.certificate_id, pdf_base64 |-> PdfFor(p),
   filename |-> Cat(<<Str("Certificate_"),
                      sanitize(Or(p.name, JsString(Str("certificate"))).s), Str(".pdf")>>)]

\* what the route can answer for the entries ps: one certificate per
\* entry, an error, or a body that is no JSON (a proxy's error page)
PdfResponses(ps) ==
  { [status |-> 200,
     json |-> [success |-> TRUE, total |-> Len(ps),
               certificates |-> [i \in 1..Len(ps) |-> pdfEntry(ps[i])]]],
    [status |-> 500, json |-> [success |-> FALSE, error |-> Str("PDF generation failed")]],
    [status |-> 502, json |-> Unparsable] }

\* the mistake of letting a rejected fetch reach the outer catch block
PdfFetchSettlesUncaught ==
  /\ generating = "fetch"
  /\ \/ /\ errorMessage' = Error("Failed to fetch").message
        /\ UNCHANGED <<generationResult, generationProgress>>
        /\ FinallyGenerate
     \/ /\ pdfRes' \in PdfResponses([i \in 1..Len(generatedCerts(parsed)) |->
                                       pdfParticipant(generatedCerts(parsed)[i])])
        /\ generating' = "json"
        /\ UNCHANGED <<generationResult, generationProgress, errorMessage, isGenerating,
                       activeAgentId, timerVars, parsed>>
  /\ GenerateFrame

\* route.ts 914-925: fetch settles; a rejection is caught and logged
PdfFetchSettles ==
  /\ generating = "fetch"
  /\ \/ StoreGeneration(parsed)
     \/ /\ pdfRes' \in PdfResponses([i \in 1..Len(generatedCerts(parsed)) |->
                                       pdfParticipant(generatedCerts(parsed)[i])])
        /\ generating' = "json"
        /\ UNCHANGED <<generationResult, generationProgress, errorMessage, isGenerating,
                       activeAgentId, timerVars, parsed>>
  /\ GenerateFrame

\* route.ts 930-932: pdfCertificates.find(p => p.certificate_id ===
\* cert.certificate_id || p.email === cert.email), 0 for undefined
pdfMatch(pdfCertificates, cert) ==
  LET hits == {k \in 1..Len(pdfCertificates) :
                 \/ pdfCertificates[k].certificate_id = cert.certificate_id
                 \/ pdfCertificates[k].email = cert.email}
  IN IF hits = {} THEN 0 ELSE CHOOSE k \in hits : \A j \in hits : k <= j

\* { ...cert, pdf_base64, filename }
withPdf(cert, match) ==
  [participant_name |-> cert.participant_name, email |-> cert.email,
   course |-> cert.course, date |-> cert.date, status |-> cert.status,
   certificate_id |-> cert.certificate_id, error_message |-> cert.error_message,
   pdf_base64 |-> match.pdf_base64, filename |-> match.filename]

\* route.ts 929-936
updatedCerts(certs, pdfCertificates) ==
  [i \in 1..Len(certs) |->
     IF pdfMatch(pdfCertificates, certs[i]) # 0
     THEN withPdf(certs[i], pdfCertificates[pdfMatch(pdfCertificates, certs[i])])
     ELSE certs[i]]

\* route.ts 926-945: pdfRes.json() settles
PdfJsonSettles ==
  /\ generating = "json"
  /\ IF pdfRes.json # Unparsable /\ pdfRes.json.success
     THEN StoreGeneration([parsed EXCEPT !.certificates =
            JsArray(updatedCerts(parsed.certificates.items, pdfRes.json.certificates))])
     ELSE StoreGeneration(parsed)
  /\ GenerateFrame

(***************************************************************************)
(* handleDispatch, route.ts 987-1038.                                      *)
(***************************************************************************)
\* route.ts 993-999
mapCert(c) ==
  [name |-> Coalesce(c.participant_name, JsString(<<>>)),
   email |-> Coalesce(c.email, JsString(<<>>)),
   course |-> Coalesce(c.course, JsString(<<>>)),
   date |-> Coalesce(c.date, JsString(<<>>)),
   certificate_id |-> Coalesce(c.certificate_id, JsString(<<>>))]

\* certs.map(mapCert)
mapCerts(certs) == [i \in 1..Len(certs) |-> mapCert(certs[i])]

IsFailed(d) == d.status = FAILED

\* the mistake of retrying every generated certificate
dispatchParticipantsAll(retryOnly) ==
  mapCerts(SelectSeq(ArrayOf(effectiveGeneration, "certificates"), IsGenerated))

\* route.ts 1004-1006: the emails of the failed deliveries
failedEmails ==
  [i \in 1..Len(SelectSeq(ArrayOf(effectiveDispatch, "deliveries"), IsFailed)) |->
     SelectSeq(ArrayOf(effectiveDispatch, "deliveries"), IsFailed)[i].email]

\* route.ts 1008
IsGeneratedAndFailed(c) == IsGenerated(c) /\ Includes(failedEmails, c.email)

\* route.ts 992-1013: the participants of the message
dispatchParticipants(retryOnly) ==
  IF retryOnly /\ Truthy(effectiveDispatch)
  THEN mapCerts(SelectSeq(ArrayOf(effectiveGeneration, "certificates"), IsGeneratedAndFailed))
  ELSE mapCerts(SelectSeq(ArrayOf(effectiveGeneration, "certificates"), IsGenerated))

\* route.ts 987-1022: the run up to the agent call
handleDispatch(retryOnly) ==
  /\ isDispatching' = TRUE
  /\ errorMessage' = <<>>
  /\ activeAgentId' = EMAIL_DISPATCH_AGENT_ID
  /\ dispatchMessage' = [action |-> "send_certificates", retryOnly |-> retryOnly,
                         participants |-> dispatchParticipants(retryOnly)]
  /\ dispatching' = "agent"
  /\ UNCHANGED <<currentStep, completedSteps, showSampleData, excelFile, validationResult,
                 generationResult, dispatchResult, isValidating, isGenerating,
                 generationProgress, timerVars, validating, generating, parsed, pdfRes,
                 world>>
  /\ OnlyThePage

\* route.ts 1556-1571: the Send button; the subject and the body of the
\* template keep their texts
SendCertificates ==
  /\ currentStep = 2
  /\ ~Truthy(effectiveDispatch)
  /\ ~isDispatching
  /\ handleDispatch(FALSE)

\* route.ts 1583, 1603-1614: Retry Failed
RetryFailed ==
  /\ currentStep = 2
  /\ Truthy(effectiveDispatch) /\ ~isDispatching
  /\ hasFailedDeliveries
  /\ handleDispatch(TRUE)

\* route.ts 1024-1037: the dispatch agent's call settles
DispatchSettles ==
  /\ dispatching = "agent"
  /\ \E settled \in Settlements(world.dispatch) :
       LET a == afterAgent(settled, Str("Email dispatch failed."))
       IN IF a.ok THEN /\ dispatchResult' = a.parsed
                       /\ UNCHANGED errorMessage
          ELSE /\ errorMessage' = a.error
               /\ UNCHANGED dispatchResult
  /\ isDispatching' = FALSE
  /\ activeAgentId' = JsNull
  /\ dispatching' = "idle"
  /\ UNCHANGED <<currentStep, completedSteps, showSampleData, excelFile, validationResult,
                 generationResult, isValidating, isGenerating, generationProgress,
                 timerVars, validating, generating, parsed, pdfRes, dispatchMessage, world>>
  /\ OnlyThePage

(***************************************************************************)
(* The page with a user: every button that is shown and enabled can be     *)
(* pressed, every pending call can settle.                                 *)
(***************************************************************************)
World(validation, generation, dispatch) ==
  [validation |-> validation, generation |-> generation, dispatch |-> dispatch]

Certificate(name, email, status, id) ==
  CertificateEntry(JsString(Str(name)), JsString(Str(email)), JsString(Str("React")),
                   JsString(Str("2025-01-15")), status, id)

\* a world in which two rows are valid, one certificate is generated and
\* one failed, and the mail to the first is refused
PageWorlds ==
  { World(ValidationResult(2, 0),
          GenerationResult(<< Certificate("Ann", "ann@x.io", GENERATED, JsString(Str("CERT-1"))),
                              Certificate("Ben", "ben@x.io", FAILED, JsUndefined) >>),
          DispatchResult(<< DeliveryEntry(JsString(Str("Ann")), JsString(Str("ann@x.io")), FAILED) >>)) }

PageIdle ==
  /\ queue = <<>>
  /\ InitLocals
  /\ InitEscapeIdle
  /\ NoDirectCalls
  /\ NoRequestReceived
  /\ NoParseCall

InitPage ==
  /\ PageIdle
  /\ \E w \in PageWorlds : Mounted(w)

NextPage ==
  \/ ToggleSampleData
  \/ HandleFile
  \/ ProceedToGenerate
  \/ ProceedToSend
  \/ BackToUpload
  \/ BackToGeneration
  \/ HandleValidate
  \/ UploadSettles
  \/ ValidationSettles
  \/ HandleGenerate
  \/ ProgressTick
  \/ GenerationSettles
  \/ PdfFetchSettles
  \/ PdfJsonSettles
  \/ SendCertificates
  \/ RetryFailed
  \/ DispatchSettles

SpecPage == InitPage /\ [][NextPage]_vars

\* every pending promise settles: the upload, the three agent calls, the
\* PDF request and the reading of its body
SettlingIsFair ==
  /\ WF_vars(UploadSettles)
  /\ WF_vars(ValidationSettles)
  /\ WF_vars(GenerationSettles)
  /\ WF_vars(PdfFetchSettles)
  /\ WF_vars(PdfJsonSettles)
  /\ WF_vars(DispatchSettles)


(***************************************************************************)
(* The runs of the three handlers, from every step at rest.                *)
(***************************************************************************)
ChosenFile == JsString(Str("participants.csv"))

InitRuns ==
  /\ PageIdle
  /\ \E w \in PageWorlds : \E step0 \in 0..2 : \E sample \in BOOLEAN :
       \E file \in {JsNull, ChosenFile} :
         Resting(step0, sample, file, JsNull, JsNull, JsNull, w)

NextRuns ==
  \/ HandleValidate
  \/ UploadSettles
  \/ ValidationSettles
  \/ HandleGenerate
  \/ ProgressTick
  \/ GenerationSettles
  \/ PdfFetchSettles
  \/ PdfJsonSettles
  \/ SendCertificates
  \/ RetryFailed
  \/ DispatchSettles

SpecRuns == InitRuns /\ [][NextRuns]_vars /\ SettlingIsFair

(***************************************************************************)
(* Runs of handleGenerate over the lists of certificates that the          *)
(* generation agent can answer with.                                       *)
(***************************************************************************)
\* largest number of certificates in an explored answer of an agent
MaxCerts == 2

CertNames == <<Str("Ann"), Str("Ben"), Str("Cal"), Str("Dee")>>

CertEmails == {JsString(Str("a@x.io")), JsString(Str("b@x.io"))}

CertIds == {JsString(Str("CERT-1")), JsString(Str("CERT-2")), JsUndefined}

\* the i-th certificate of a list carries the i-th name; the email, the
\* status and the id are any of the explored ones
CertLists ==
  UNION { { [i \in 1..n |->
              CertificateEntry(JsString(CertNames[i]), attrs[i][1], JsString(Str("React")),
                               JsString(Str("2025-01-15")), attrs[i][2], attrs[i][3])] :
            attrs \in [1..n -> CertEmails \X {GENERATED, FAILED} \X CertIds] } :
          n \in 0..MaxCerts }

GenerateWorlds ==
  { World(ValidationResult(2, 0), GenerationResult(certs), DispatchResult(<<>>)) :
      certs \in CertLists }

InitGenerate ==
  /\ PageIdle
  /\ \E w \in GenerateWorlds : Resting(1, FALSE, JsNull, JsNull, JsNull, JsNull, w)

NextGenerate ==
  \/ HandleGenerate
  \/ ProgressTick
  \/ GenerationSettles
  \/ PdfFetchSettles
  \/ PdfJsonSettles

SpecGenerate == InitGenerate /\ [][NextGenerate]_vars

(***************************************************************************)
(* Runs of handleDispatch over the generation results and the dispatch     *)
(* results that the page can hold on the last step.                        *)
(***************************************************************************)
\* largest number of deliveries in an explored dispatch result
MaxDeliveries == 2

DeliveryLists ==
  UNION { { [i \in 1..n |-> DeliveryEntry(JsString(CertNames[i]), attrs[i][1], attrs[i][2])] :
            attrs \in [1..n -> CertEmails \X {SENT, FAILED}] } :
          n \in 0..MaxDeliveries }

\* the dispatch agent answers that the mail to a@x.io was refused
DispatchWorld ==
  World(ValidationResult(2, 0), GenerationResult(<<>>),
        DispatchResult(<< DeliveryEntry(JsString(Str("Ann")), JsString(Str("a@x.io")), FAILED) >>))

InitDispatch ==
  /\ PageIdle
  /\ \E sample \in BOOLEAN :
       \E generation \in {JsNull} \cup {GenerationResult(certs) : certs \in CertLists} :
         \E dispatch \in {JsNull} \cup {DispatchResult(ds) : ds \in DeliveryLists} :
           Resting(2, sample, JsNull, JsNull, generation, dispatch, DispatchWorld)

NextDispatch ==
  \/ SendCertificates
  \/ RetryFailed
  \/ DispatchSettles

SpecDispatch == InitDispatch /\ [][NextDispatch]_vars

(***************************************************************************)
(* Reading a returned buffer the way a PDF reader does: from the end, via  *)
(* startxref, the cross-reference table and the offsets it records.        *)
(* Offsets are 0-based byte offsets, as written in the file.               *)
(***************************************************************************)
IsDigit(b) == b >= ZERO /\ b <= ZERO + 9

\* the bytes pat lie in buf at offset off
At(buf, off, pat) ==
  /\ off >= 0
  /\ off + Len(pat) <= Len(buf)
  /\ SubSeq(buf, off + 1, off + Len(pat)) = pat

\* the decimal number starting at offset off and the offset after it
RECURSIVE ReadDigits(_, _, _)
ReadDigits(buf, off, acc) ==
  IF off >= 0 /\ off < Len(buf) /\ IsDigit(buf[off + 1])
  THEN ReadDigits(buf, off + 1, acc * 10 + (buf[off + 1] - ZERO))
  ELSE [val |-> acc, next |-> off]

ReadNat(buf, off) == ReadDigits(buf, off, 0)

\* the offset at which the run of digits ending just before offset off starts
RECURSIVE DigitsBack(_, _)
DigitsBack(buf, off) ==
  IF off > 0 /\ off <= Len(buf) /\ IsDigit(buf[off]) THEN DigitsBack(buf, off - 1) ELSE off

\* the end of the file: startxref, a number, %%EOF
ReadStartXref(buf) ==
  LET eof == Len(buf) - 5
      numStart == DigitsBack(buf, eof - 1)
  IN [ok |-> /\ At(buf, eof, Str("%%EOF"))
             /\ At(buf, eof - 1, <<NL>>)
             /\ numStart < eof - 1
             /\ At(buf, numStart - 10, Str("startxref") \o <<NL>>),
      keyword |-> numStart - 10,
      value |-> ReadNat(buf, numStart).val]

\* the cross-reference section the file's startxref points to
ReadXref(buf) ==
  LET sx == ReadStartXref(buf)
      x == sx.value
      cnt == ReadNat(buf, x + 7)
  IN [ok |-> /\ sx.ok
             /\ At(buf, x, Str("xref") \o <<NL>> \o Str("0 "))
             /\ cnt.next > x + 7
             /\ At(buf, cnt.next, <<NL>>),
      start |-> x,
      size |-> cnt.val,
      base |-> cnt.next + 1,
      keyword |-> sx.keyword]

\* offset of the k-th entry (k = 0 is the free-list head); entries are 20 bytes
EntryAt(xr, k) == xr.base + 20 * k

\* a well-formed in-use entry: ten digits, " 00000 n ", newline
InUseEntry(buf, off) ==
  /\ off >= 0
  /\ off + 20 <= Len(buf)
  /\ \A i \in 1..10 : IsDigit(buf[off + i])
  /\ At(buf, off + 10, Str(" 00000 n ") \o <<NL>>)

\* the offset recorded for object n
ObjectOffset(buf, xr, n) == ReadNat(buf, EntryAt(xr, n)).val

\* the buffers returned so far
Returned == { done[i].buffer : i \in 1..Len(done) }

\* C1: in every returned buffer, the cross-reference entry of each object
\* n in 1..7 holds exactly the byte offset at which the bytes "<n> 0 obj"
\* begin in that buffer (also for fields with multi-byte characters)
XrefOffsetsPointAtObjects ==
  \A buf \in Returned :
    LET xr == ReadXref(buf)
    IN /\ xr.ok
       /\ \A n \in 1..7 :
            /\ InUseEntry(buf, EntryAt(xr, n))
            /\ At(buf, ObjectOffset(buf, xr, n), Dec(n) \o Str(" 0 obj") \o <<NL>>)

HasMultiByte(r) ==
  \E f \in {r.name, r.course, r.date, r.certificate_id} : NonAscii(f) # {}

\* a call whose name holds multi-byte text has returned
MultiByteNameEncoded ==
  \E i \in 1..Len(done) : NonAscii(done[i].data.name) # {}

\* object 4 as a reader finds it: dictionary with /Length, then the stream
ReadStream(buf, xr) ==
  LET off == ObjectOffset(buf, xr, 4)
      head == Str("4 0 obj") \o <<NL>> \o Str("<< /Length ")
      len == ReadNat(buf, off + Len(head))
      open == Str(" >>") \o <<NL>> \o Str("stream") \o <<NL>>
  IN [ok |-> /\ At(buf, off, head)
             /\ len.next > off + Len(head)
             /\ At(buf, len.next, open),
      length |-> len.val,
      start |-> len.next + Len(open)]

streamClose == <<NL>> \o Str("endstream") \o <<NL>> \o Str("endobj") \o <<NL>>

\* C2: the /Length written in object 4 is the number of bytes of the
\* stream payload: that many bytes after "stream\n" the file continues
\* with "\nendstream", and the object ends where object 5 begins
StreamLengthIsByteLength ==
  \A buf \in Returned :
    LET xr == ReadXref(buf)
        st == ReadStream(buf, xr)
    IN /\ xr.ok
       /\ st.ok
       /\ At(buf, st.start + st.length, streamClose)
       /\ st.start + st.length + Len(streamClose) = ObjectOffset(buf, xr, 5)

\* a call has returned whose content stream holds more bytes than characters
MultiByteStreamEncoded ==
  \E i \in 1..Len(done) :
    /\ HasMultiByte(done[i].data)
    /\ ReadStream(done[i].buffer, ReadXref(done[i].buffer)).length
         > Len(Join(contentLines(done[i].data), <<NL>>))

\* C3: the number after startxref is the byte offset at which the xref
\* keyword begins, and that offset lies after the end of object 7
StartXrefPointsAtXref ==
  \A buf \in Returned :
    LET sx == ReadStartXref(buf)
        xr == ReadXref(buf)
    IN /\ sx.ok
       /\ At(buf, sx.value, Str("xref") \o <<NL>>)
       /\ xr.ok
       /\ ObjectOffset(buf, xr, 7) < sx.value
       /\ At(buf, ObjectOffset(buf, xr, 7), Str("7 0 obj") \o <<NL>>)
       /\ At(buf, sx.value - 7, Str("endobj") \o <<NL>>)

\* the last call has returned a buffer with more bytes than its string has
\* characters, so byte and character offsets of the xref section differ
MultiByteFileEncoded ==
  /\ pc = "idle"
  /\ done # <<>>
  /\ HasMultiByte(done[Len(done)].data)
  /\ Len(done[Len(done)].buffer) > Len(pdf)
  /\ ReadStartXref(done[Len(done)].buffer).value = xrefOffset

(***************************************************************************)
(* Reversing the escaping rule, and reading string literals.               *)
(***************************************************************************)
IsSpecial(u) == u \in {BACKSLASH, LPAREN, RPAREN}

\* \\ -> \, \( -> (, \) -> ), from left to right
RECURSIVE unescapeText(_)
unescapeText(s) ==
  IF s = <<>> THEN <<>>
  ELSE IF Head(s) = BACKSLASH /\ Len(s) >= 2 /\ IsSpecial(s[2])
    THEN <<s[2]>> \o unescapeText(SubSeq(s, 3, Len(s)))
  ELSE <<Head(s)>> \o unescapeText(Tail(s))

CountSpecial(s) == Cardinality({i \in 1..Len(s) : IsSpecial(s[i])})

\* C4: un-escaping escapeText(s) yields s exactly, and escaping adds one
\* backslash per backslash or parenthesis of s and nothing else (the
\* backslash put in front of a parenthesis is not doubled)
EscapeRoundTrip ==
  escaped # NotEscaped =>
    /\ unescapeText(escaped) = raw
    /\ Len(escaped) = Len(raw) + CountSpecial(raw)
    /\ CountSpecial(escaped) = 2 * CountSpecial(raw)

\* a string with a backslash and a parenthesis has been escaped
EscapedBackslashAndParen ==
  /\ escaped # NotEscaped
  /\ \E i, j \in 1..Len(raw) : raw[i] = BACKSLASH /\ raw[j] \in {LPAREN, RPAREN}

\* the number of consecutive backslashes that end at element i of buf
RECURSIVE BackslashRun(_, _)
BackslashRun(buf, i) ==
  IF i >= 1 /\ i <= Len(buf) /\ buf[i] = BACKSLASH THEN 1 + BackslashRun(buf, i - 1) ELSE 0

\* the elements from + 1 .. end of buf that hold a parenthesis which no
\* backslash escapes (the content stream has backslashes only in literals)
Delimiters(buf, from, end) ==
  { i \in (from + 1)..end :
      /\ i <= Len(buf)
      /\ buf[i] \in {LPAREN, RPAREN}
      /\ BackslashRun(buf, i - 1) % 2 = 0 }

RECURSIVE Sorted(_)
Sorted(set) ==
  IF set = {} THEN <<>>
  ELSE LET least == CHOOSE i \in set : \A j \in set : i <= j
       IN <<least>> \o Sorted(set \ {least})

\* the bytes a literal denotes: a backslash takes the next byte literally
RECURSIVE LiteralBytes(_)
LiteralBytes(s) ==
  IF s = <<>> THEN <<>>
  ELSE IF Head(s) = BACKSLASH /\ Len(s) >= 2
    THEN <<s[2]>> \o LiteralBytes(SubSeq(s, 3, Len(s)))
  ELSE <<Head(s)>> \o LiteralBytes(Tail(s))

showText == Str(" Tj")

\* a literal that opens at element open and closes at element close
Literal(buf, open, close, end) ==
  [bytes |-> LiteralBytes(SubSeq(buf, open + 1, close - 1)),
   closed |-> TRUE,
   shown |-> /\ At(buf, close, showText)
             /\ \/ close + Len(showText) = end
                \/ At(buf, close + Len(showText), <<NL>>)]

Unclosed == [bytes |-> <<>>, closed |-> FALSE, shown |-> FALSE]

\* the string literals delimited by the parentheses at the elements ps, in
\* order: a "(" outside a literal opens one, parentheses inside nest, the
\* ")" at depth 0 closes it; open = 0 outside a literal
RECURSIVE ScanLiterals(_, _, _, _, _)
ScanLiterals(buf, ps, open, depth, end) ==
  IF ps = <<>> THEN (IF open = 0 THEN <<>> ELSE <<Unclosed>>)
  ELSE LET p == Head(ps)
       IN IF buf[p] = LPAREN
            THEN IF open = 0
                   THEN ScanLiterals(buf, Tail(ps), p, 0, end)
                   ELSE ScanLiterals(buf, Tail(ps), open, depth + 1, end)
          ELSE IF open = 0
            THEN <<Unclosed>> \o ScanLiterals(buf, Tail(ps), 0, 0, end)
          ELSE IF depth = 0
            THEN <<Literal(buf, open, p, end)>> \o ScanLiterals(buf, Tail(ps), 0, 0, end)
          ELSE ScanLiterals(buf, Tail(ps), open, depth - 1, end)

\* the string literals of buf between offsets from and end, in order, each
\* with whether " Tj" and the end of the line (or of the stream) follow it
ReadLiterals(buf, from, end) ==
  ScanLiterals(buf, Sorted(Delimiters(buf, from, end)), 0, 0, end)

\* the literals of the content stream of a returned buffer
StreamLiterals(buf) ==
  LET st == ReadStream(buf, ReadXref(buf))
  IN ReadLiterals(buf, st.start, st.start + st.length)

\* the texts the encoder shows for a request, in the order of the layout
ShownTexts(r) ==
  << certLabel, ofLabel, certifyText, r.name, completedText, r.course,
     dateLabel(r.date), Str("Authorized Signature"), Str("Program Director"),
     idLabel(r.certificate_id), brandLabel >>

\* C5: the four fields reach the content stream only escaped: read as PDF
\* string literals, the stream holds exactly the eleven shown texts, each
\* literal closed by its own delimiter and followed by Tj, the name, course,
\* date and certificate id among them unchanged; the course
\* "Intro (Basics)" is emitted as (Intro \(Basics\))
FieldsAreEscapedInLiterals ==
  \A i \in 1..Len(done) :
    LET buf == done[i].buffer
        lits == StreamLiterals(buf)
        texts == ShownTexts(done[i].data)
    IN /\ Len(lits) = Len(texts)
       /\ \A k \in 1..Len(lits) :
            /\ lits[k].closed
            /\ lits[k].shown
            /\ lits[k].bytes = BufferFrom(texts[k])
       /\ done[i].data.course = Str("Intro (Basics)") =>
            \E off \in 0..Len(buf) :
              At(buf, off, <<NL>> \o Str("(Intro \\(Basics\\)) Tj") \o <<NL>>)

\* the example with the course "Intro (Basics)" has been encoded
ParensExampleEncoded ==
  \E i \in 1..Len(done) : done[i].data = ExampleParens

\* C6: two calls with identical name, course, date and certificate_id
\* return byte-identical buffers, whatever was encoded before or between
SameRequestSameBuffer ==
  \A i, j \in 1..Len(done) :
    done[i].data = done[j].data => done[i].buffer = done[j].buffer

\* a request was encoded, then a different one, then the first one again
EncodedAgainAfterAnother ==
  /\ Len(done) = 3
  /\ done[1].data = done[3].data
  /\ done[2].data # done[1].data


(***************************************************************************)
(* The object graph of a returned buffer.                                  *)
(***************************************************************************)
\* the offset at which the region of object n ends: where object n + 1
\* begins, or the xref section for the last object
ObjectEnd(buf, xr, n) ==
  IF n + 1 < xr.size THEN ObjectOffset(buf, xr, n + 1) ELSE xr.start

\* the bytes from offset from up to offset to
Region(buf, from, to) ==
  IF 0 <= from /\ from <= to /\ to <= Len(buf) THEN SubSeq(buf, from + 1, to) ELSE <<>>

ObjectBytes(buf, xr, n) == Region(buf, ObjectOffset(buf, xr, n), ObjectEnd(buf, xr, n))

\* the trailer: from the end of the xref table to the startxref keyword
TrailerBytes(buf, xr) == Region(buf, EntryAt(xr, xr.size), xr.keyword)

Occurrences(body, pat) == {off \in 0..Len(body) : At(body, off, pat)}

Contains(body, pat) == Occurrences(body, pat) # {}

indirectRef == Str(" 0 R")

\* the object number of the reference "<key><n> 0 R" in body; 0 if the key is
\* missing, occurs twice or is not followed by a reference
RefOf(body, key) ==
  LET occ == Occurrences(body, Str(key))
  IN IF Cardinality(occ) # 1 THEN 0
     ELSE LET off == (CHOOSE o \in occ : TRUE) + Len(Str(key))
              num == ReadNat(body, off)
          IN IF num.next > off /\ At(body, num.next, indirectRef) THEN num.val ELSE 0

\* the object numbers of all references "<n> 0 R" in body
RefsIn(body) ==
  { ReadNat(body, DigitsBack(body, off)).val : off \in Occurrences(body, indirectRef) }

IsFont(body, baseFont) ==
  /\ Contains(body, Str("/Type /Font "))
  /\ Contains(body, Str("/BaseFont /") \o Str(baseFont) \o Str(" "))
  /\ Contains(body, Str("/Encoding /WinAnsiEncoding "))

\* C7: exactly 7 indirect objects are emitted, numbered 1..7 in emission
\* order, each number once: the file body is seven consecutive regions
\* "<n> 0 obj ... endobj", the xref header is "0 8" with 8 entries of
\* which the first is the free entry, and the trailer declares /Size 8
SevenObjectsNumberedInOrder ==
  /\ pc \in {"assemble", "xref", "return"} =>
       /\ Len(objects) = 7
       /\ objNum = 8
       /\ \A n \in 1..7 :
            At(objects[n], 0, Dec(n) \o Str(" 0 obj") \o <<NL>>)
  /\ \A buf \in Returned :
       LET xr == ReadXref(buf)
       IN /\ xr.ok
          /\ xr.size = 8
          /\ At(buf, xr.start, Str("xref") \o <<NL>> \o Str("0 8") \o <<NL>>)
          /\ At(buf, EntryAt(xr, 0), Str("0000000000 65535 f ") \o <<NL>>)
          /\ \A n \in 1..7 : InUseEntry(buf, EntryAt(xr, n))
          /\ At(buf, EntryAt(xr, 8), Str("trailer") \o <<NL>> \o Str("<< /Size 8 "))
          /\ ObjectOffset(buf, xr, 1) = Len(pdfHeader)
          /\ \A n \in 1..7 :
               /\ ObjectOffset(buf, xr, n) < ObjectEnd(buf, xr, n)
               /\ At(buf, ObjectOffset(buf, xr, n), Dec(n) \o Str(" 0 obj") \o <<NL>>)
               /\ At(buf, ObjectEnd(buf, xr, n) - 8, <<NL>> \o Str("endobj") \o <<NL>>)

\* a call has returned and the objects it emitted are still at hand
ObjectsEmittedAndReturned ==
  /\ pc = "idle"
  /\ done # <<>>
  /\ Len(objects) = 7
  /\ HasMultiByte(done[Len(done)].data)

\* C8: every indirect reference resolves to the object of the expected
\* kind (trailer /Root -> 1 Catalog, /Pages -> 2 Pages with one Kid and
\* Count 1, /Kids -> 3 Page, /Parent -> 2, /Contents -> 4 the stream,
\* F1, F2, F3 -> 5, 6, 7 the regular, bold and monospace WinAnsi fonts)
\* and no reference names an object outside 1..7
ReferencesResolve ==
  \A buf \in Returned :
    LET xr == ReadXref(buf)
        obj(n) == IF n \in 1..7 THEN ObjectBytes(buf, xr, n) ELSE <<>>
        trailer == TrailerBytes(buf, xr)
        root == RefOf(trailer, "/Root ")
        pages == RefOf(obj(root), "/Pages ")
        kid == RefOf(obj(pages), "/Kids [")
        page == obj(kid)
        parent == RefOf(page, "/Parent ")
        contents == RefOf(page, "/Contents ")
        f1 == RefOf(page, "/F1 ")
        f2 == RefOf(page, "/F2 ")
        f3 == RefOf(page, "/F3 ")
    IN /\ xr.ok
       /\ root = 1
       /\ Contains(obj(root), Str("/Type /Catalog "))
       /\ pages = 2
       /\ Contains(obj(pages), Str("/Type /Pages "))
       /\ Contains(obj(pages), Str("/Kids [3 0 R] "))
       /\ Contains(obj(pages), Str("/Count 1 "))
       /\ kid = 3
       /\ Contains(page, Str("/Type /Page "))
       /\ parent = pages
       /\ contents = 4
       /\ ReadStream(buf, xr).ok
       /\ ReadStream(buf, xr).start < ObjectEnd(buf, xr, contents)
       /\ f1 = 5 /\ IsFont(obj(f1), "Helvetica")
       /\ f2 = 6 /\ IsFont(obj(f2), "Helvetica-Bold")
       /\ f3 = 7 /\ IsFont(obj(f3), "Courier")
       /\ \A n \in {1, 2, 3, 5, 6, 7} : RefsIn(obj(n)) \subseteq 1..7
       /\ RefsIn(trailer) \subseteq 1..7

\* a buffer has been returned whose page object names its three fonts
PageWithFontsReturned ==
  \E buf \in Returned :
    Cardinality(RefsIn(ObjectBytes(buf, ReadXref(buf), 3))) = 5

\* C9: the first xref entry is the free-list head "0000000000 65535 f" and
\* every in-use entry is exactly 20 bytes: the offset zero-padded to 10
\* digits, " 00000 n " with its trailing space, and a newline
XrefEntriesAreTwentyBytes ==
  \A buf \in Returned :
    LET xr == ReadXref(buf)
    IN /\ xr.ok
       /\ At(buf, xr.base, Str("0000000000 65535 f"))
       /\ EntryAt(xr, 1) - EntryAt(xr, 0) = 20
       /\ \A n \in 1..(xr.size - 1) :
            /\ InUseEntry(buf, EntryAt(xr, n))
            /\ SubSeq(buf, EntryAt(xr, n) + 1, EntryAt(xr, n) + 10)
                 = padStart(Dec(ObjectOffset(buf, xr, n)), 10, ZERO)
       /\ xr.size > 1
       /\ At(buf, EntryAt(xr, xr.size), Str("trailer") \o <<NL>>)

\* a buffer has been returned whose xref table records offsets of two,
\* three and four digits
PaddedOffsetsReturned ==
  \E buf \in Returned :
    LET xr == ReadXref(buf)
    IN /\ ObjectOffset(buf, xr, 2) < 100
       /\ ObjectOffset(buf, xr, 4) < 1000
       /\ ObjectOffset(buf, xr, 7) >= 1000

\* C10: the returned buffer starts with "%PDF-1.4\n", ends with "%%EOF"
\* and nothing after it, its trailer contains "/Root 1 0 R", and it holds
\* the participant name as a string literal directly followed by Tj
\* (e.g. "(Alice Johnson) Tj")
HeaderTrailerAndName ==
  \A i \in 1..Len(done) :
    LET buf == done[i].buffer
        xr == ReadXref(buf)
        lits == StreamLiterals(buf)
    IN /\ At(buf, 0, Str("%PDF-1.4") \o <<NL>>)
       /\ At(buf, Len(buf) - 5, Str("%%EOF"))
       /\ xr.ok
       /\ At(buf, EntryAt(xr, xr.size), Str("trailer") \o <<NL>>)
       /\ Contains(TrailerBytes(buf, xr), Str("/Root 1 0 R"))
       /\ \E k \in 1..Len(lits) :
            /\ lits[k].bytes = BufferFrom(done[i].data.name)
            /\ lits[k].closed
            /\ lits[k].shown
       /\ done[i].data.name = Str("Alice Johnson") =>
            Contains(buf, <<NL>> \o Str("(Alice Johnson) Tj") \o <<NL>>)

\* the example request for Alice Johnson has been encoded
AliceExampleEncoded ==
  \E i \in 1..Len(done) : done[i].data = ExampleAlice

(***************************************************************************)
(* Totality of the encoder.                                                *)
(***************************************************************************)
IsBuffer(b) == \A k \in 1..Len(b) : b[k] \in 0..255

\* C11: every call of the encoder with four strings, also empty ones and
\* ones so long that the x position is negative, returns a buffer of bytes
\* and raises no error
EncoderIsTotal ==
  \A k \in 1..Len(calls) :
    AllStrings(calls[k].args) =>
      /\ calls[k].outcome.t = "return"
      /\ Len(calls[k].outcome.buffer) > 0
      /\ IsBuffer(calls[k].outcome.buffer)

\* a call with an empty name and an over-long course has returned a buffer
\* whose course line starts at a negative x
EmptyAndLongEncoded ==
  \E k \in 1..Len(calls) :
    /\ calls[k].args.name = JsString(<<>>)
    /\ calls[k].args.course = JsString(LongText)
    /\ AllStrings(calls[k].args)
    /\ calls[k].outcome.t = "return"
    /\ centerX - courseWidth(LongText) \div 2 < 0
    /\ Contains(calls[k].outcome.buffer,
                <<NL>> \o NumStr4(centerX - courseWidth(LongText) \div 2)
                  \o Str(" 330 Td") \o <<NL>>)

(***************************************************************************)
(* Independence of the invocations.                                        *)
(***************************************************************************)
\* C12: whatever was encoded before it, each call returns the buffer that
\* encoding its request alone gives: object numbers, offsets and /Length
\* of a buffer depend on no other invocation
EncodingsAreIndependent ==
  \A i \in 1..Len(done) : done[i].buffer = generateCertificatePDF(done[i].data)

\* three calls have returned, the second for a request with other texts
\* and another stream length than the first
ThreeCallsReturned ==
  /\ Len(done) = 3
  /\ pc = "idle"
  /\ queue = <<>>
  /\ Len(done[2].buffer) # Len(done[1].buffer)
  /\ ReadStream(done[2].buffer, ReadXref(done[2].buffer)).ok

(***************************************************************************)
(* The answers of the POST handler.                                        *)
(***************************************************************************)
Responded == step = "responded"

\* the body is JSON whose participants field is an array with an entry
HasParticipants(b) ==
  /\ b.t = "object"
  /\ b.participants.t = "array"
  /\ Len(b.participants.items) > 0

\* C13: a request whose body is JSON with a missing, non-array or empty
\* participants field is answered with status 400 and success false, and
\* the encoder is not called for it
MissingParticipantsGets400 ==
  (request # Unparsable /\ ~HasParticipants(request)) =>
     /\ calls = <<>>
     /\ Responded => (response.status = 400 /\ response.json.success = FALSE)

\* the value of a base64 character, read off the character ranges
Base64Value(c) ==
  CASE c >= 65 /\ c <= 90 -> c - 65
    [] c >= 97 /\ c <= 122 -> c - 71
    [] c >= 48 /\ c <= 57 -> c + 4
    [] c = 43 -> 62
    [] c = 47 -> 63
    [] OTHER -> 0 - 1

\* s is canonical base64: groups of four characters of the alphabet, at
\* most two '=' and only at the very end
IsBase64(s) ==
  /\ Len(s) % 4 = 0
  /\ \A i \in 1..Len(s) :
       \/ Base64Value(s[i]) >= 0
       \/ /\ s[i] = 61
          /\ i >= Len(s) - 1
          /\ i < Len(s) => s[Len(s)] = 61

\* the bytes a base64 decoder reads from s
fromBase64(s) ==
  LET pads == Cardinality({i \in 1..Len(s) : s[i] = 61})
      six(i) == IF s[i] = 61 THEN 0 ELSE Base64Value(s[i])
      quad(g) == six(4 * g + 1) * 262144 + six(4 * g + 2) * 4096
                   + six(4 * g + 3) * 64 + six(4 * g + 4)
  IN [k \in 1..((Len(s) \div 4) * 3 - pads) |->
        (quad((k - 1) \div 3) \div (256 ^ (2 - ((k - 1) % 3)))) % 256]

EntryFields == {"name", "course", "date", "certificate_id"}

\* C14: a request answered with success has had the encoder called exactly
\* once per entry, in the order of the entries; the answer holds success
\* true, the number of entries as total, and one certificate per entry in
\* the same order, whose pdf_base64 decodes to the buffer that the call
\* for that entry returned
SuccessHoldsEveryCertificate ==
  (Responded /\ response.status = 200) =>
    LET items == request.participants.items
        certs == response.json.certificates
    IN /\ response.json.success = TRUE
       /\ response.json.total = Len(items)
       /\ Len(certs) = Len(items)
       /\ Len(calls) = Len(items)
       /\ \A i \in 1..Len(items) :
            /\ \A f \in EntryFields \cup {"email"} : certs[i][f] = items[i][f]
            /\ \A f \in EntryFields : Truthy(items[i][f]) => calls[i].args[f] = items[i][f]
            /\ calls[i].outcome.t = "return"
            /\ IsBase64(certs[i].pdf_base64)
            /\ fromBase64(certs[i].pdf_base64) = calls[i].outcome.buffer

\* a request with two different entries has been answered with success
TwoCertificatesAnswered ==
  /\ Responded
  /\ response.status = 200
  /\ Len(response.json.certificates) = 2
  /\ request.participants.items[1] # request.participants.items[2]
  /\ response.json.certificates[1].pdf_base64 # response.json.certificates[2].pdf_base64

\* the text of a name field; none for a name that is missing
NameText(v) == IF v.t = "string" THEN v.s ELSE <<>>

Alphanumeric ==
  { Str("abcdefghijklmnopqrstuvwxyzABCDEFGHIJKLMNOPQRSTUVWXYZ0123456789")[i] : i \in 1..62 }

\* out is s with every code unit outside a-z, A-Z, 0-9 turned into '_'
IsUnderscored(out, s) ==
  /\ Len(out) = Len(s)
  /\ \A i \in 1..Len(s) : out[i] = (IF s[i] \in Alphanumeric THEN s[i] ELSE 95)

AnsweredCertificates ==
  IF Responded /\ response.status = 200 THEN response.json.certificates ELSE <<>>

\* C15 as claimed: the filename of every entry is Certificate_ followed by
\* the entry's name with every non-alphanumeric character turned into '_'
FilenameIsPrefixAndName ==
  \A i \in 1..Len(AnsweredCertificates) :
    LET filename == AnsweredCertificates[i].filename
        prefix == Str("Certificate_")
    IN /\ Len(filename) >= Len(prefix)
       /\ SubSeq(filename, 1, Len(prefix)) = prefix
       /\ IsUnderscored(SubSeq(filename, Len(prefix) + 1, Len(filename)),
                        NameText(request.participants.items[i].name))

\* C15: the filename of every entry is Certificate_, then the entry's name
\* (the word certificate for a missing or empty name) with every UTF-16
\* code unit outside a-z, A-Z, 0-9 turned into '_', then .pdf
FilenameIsPrefixNameAndSuffix ==
  \A i \in 1..Len(AnsweredCertificates) :
    LET filename == AnsweredCertificates[i].filename
        prefix == Str("Certificate_")
        suffix == Str(".pdf")
        given == NameText(request.participants.items[i].name)
        base == IF given = <<>> THEN Str("certificate") ELSE given
    IN /\ Len(filename) = Len(prefix) + Len(base) + Len(suffix)
       /\ SubSeq(filename, 1, Len(prefix)) = prefix
       /\ IsUnderscored(SubSeq(filename, Len(prefix) + 1, Len(prefix) + Len(base)), base)
       /\ SubSeq(filename, Len(prefix) + Len(base) + 1, Len(filename)) = suffix

\* an answer names one file after a name with a space, a parenthesis, an
\* accented letter and a surrogate pair, and one after a missing name
SanitizedAndFallbackNamed ==
  \E i, j \in 1..Len(AnsweredCertificates) :
    /\ AnsweredCertificates[i].filename = Str("Certificate_A_____.pdf")
    /\ request.participants.items[i].name = JsString(Str("A (") \o <<233, 55357, 56832>>)
    /\ AnsweredCertificates[j].filename = Str("Certificate_certificate.pdf")
    /\ request.participants.items[j].name = JsUndefined

IsSuccess ==
  /\ response.status = 200
  /\ response.json.success = TRUE
  /\ caught = JsUndefined

IsMissingParticipants ==
  /\ response.status = 400
  /\ response.json.success = FALSE
  /\ response.json.error = Str("participants array is required")
  /\ caught = JsUndefined

IsException ==
  /\ response.status = 500
  /\ response.json.success = FALSE
  /\ caught # JsUndefined

\* an exception was raised while the body was read or an entry encoded
Raised ==
  \/ request = Unparsable /\ step # "received"
  \/ \E k \in 1..Len(calls) : calls[k].outcome.t = "throw"

\* C16 as claimed: an exception raised while the request is processed is
\* answered with status 500, success false and the fixed failure message,
\* and every answer is one of 200-success, 400-missing-participants and
\* 500-exception
ExceptionGetsFixedMessage ==
  /\ Raised => (Responded /\ IsException)
  /\ Responded => (IsSuccess \/ IsMissingParticipants \/ IsException)
  /\ (Responded /\ IsException) => response.json.error = Str("PDF generation failed")

\* C16: an exception raised while the request is processed is answered
\* with status 500, success false and the message of the error that was
\* caught, and every answer is one of 200-success,
\* 400-missing-participants and 500-exception
ExceptionGetsItsMessage ==
  /\ Raised => (Responded /\ IsException)
  /\ Responded => (IsSuccess \/ IsMissingParticipants \/ IsException)
  /\ (Responded /\ IsException) =>
       /\ caught.t = "Error"
       /\ response.json.error = caught.message

\* the encoder raised a TypeError for an entry and the request was
\* answered with 500 and that error's message
EncoderErrorAnswered ==
  /\ Responded
  /\ calls # <<>>
  /\ calls[Len(calls)].outcome.t = "throw"
  /\ response.status = 500
  /\ response.json.error = Str("text.replace is not a function")

\* the values the handler may put in place of a missing date or id
DefaultDates == { JsString(toISODate(Instants[t].day)) : t \in 1..Len(Instants) }

DefaultIds == { JsString(Str("CERT-") \o DateNow(Instants[t])) : t \in 1..Len(Instants) }

MissingOrEmpty(v) == v = JsUndefined \/ v = JsString(<<>>)

\* C17: every call the handler makes passes four strings: the default for
\* a missing or empty field, the supplied value otherwise
EncoderGetsFourStrings ==
  \A k \in 1..Len(calls) :
    LET p == participants[k]
        a == calls[k].args
    IN /\ AllStrings(a)
       /\ IF MissingOrEmpty(p.name) THEN a.name = JsString(Str("Participant"))
          ELSE a.name = p.name
       /\ IF MissingOrEmpty(p.course) THEN a.course = JsString(Str("Course"))
          ELSE a.course = p.course
       /\ IF MissingOrEmpty(p.date) THEN a.date \in DefaultDates ELSE a.date = p.date
       /\ IF MissingOrEmpty(p.certificate_id) THEN a.certificate_id \in DefaultIds
          ELSE a.certificate_id = p.certificate_id

(***************************************************************************)
(* The content stream read line by line.                                   *)
(***************************************************************************)
\* the elements of a set of numbers within lo..hi, in increasing order
RECURSIVE Ascending(_, _, _)
Ascending(set, lo, hi) ==
  IF set = {} THEN <<>>
  ELSE IF lo = hi THEN <<lo>>
  ELSE LET mid == (lo + hi) \div 2
       IN Ascending({x \in set : x <= mid}, lo, mid)
            \o Ascending({x \in set : x > mid}, mid + 1, hi)

\* the lines of a text: what lies between its newlines
LinesOf(s) ==
  LET nls == Ascending({i \in 1..Len(s) : s[i] = NL}, 1, Len(s))
      n == Len(nls)
  IN [k \in 1..(n + 1) |->
        SubSeq(s, IF k = 1 THEN 1 ELSE nls[k - 1] + 1,
                  IF k = n + 1 THEN Len(s) ELSE nls[k] - 1)]

\* the lines of the content stream of a returned buffer
StreamLines(buf) ==
  LET st == ReadStream(buf, ReadXref(buf))
  IN LinesOf(SubSeq(buf, st.start + 1, st.start + st.length))

EndsWith(line, pat) ==
  Len(line) >= Len(pat) /\ SubSeq(line, Len(line) - Len(pat) + 1, Len(line)) = pat

StartsWith(line, pat) == Len(line) >= Len(pat) /\ SubSeq(line, 1, Len(pat)) = pat

\* the lines at the given places, in order
LinesAt(lines, places) ==
  LET ks == Ascending(places, 1, Len(lines))
  IN [j \in 1..Len(ks) |-> lines[ks[j]]]

\* the number a line starts with, in quarters of a point: an optional
\* sign, digits, and an optional fraction .25, .5 or .75; -1 remains for
\* what is no such number
Quarters(line) ==
  LET neg == Len(line) > 0 /\ line[1] = CodeOf["-"]
      from == IF neg THEN 1 ELSE 0
      int == ReadNat(line, from)
      dot == At(line, int.next, Str("."))
      frac == IF dot THEN ReadNat(line, int.next + 1) ELSE [val |-> 0, next |-> int.next]
      digits == frac.next - int.next - 1
      q == CASE ~dot -> 0
             [] dot /\ digits = 1 /\ frac.val = 5 -> 2
             [] dot /\ digits = 2 /\ frac.val = 25 -> 1
             [] dot /\ digits = 2 /\ frac.val = 75 -> 3
             [] OTHER -> 0 - 1
  IN [ok |-> int.next > from /\ q >= 0 /\ At(line, frac.next, Str(" ")),
      value |-> (IF neg THEN 0 - 1 ELSE 1) * (int.val * 4 + q)]

\* the x positions of the text lines of a stream, in order
TextPositions(lines) ==
  LinesAt(lines, {k \in 1..Len(lines) : EndsWith(lines[k], Str(" Td"))})

\* the centred texts of a request with twice their width per character, in
\* the order of the layout; 0 stands for the two captions at fixed places
CentredTexts(r) ==
  << <<Str("CERTIFICATE"), 18>>, <<Str("OF COMPLETION"), 14>>,
     <<Str("This is to certify that"), 12>>, <<r.name, 28>>,
     <<Str("has successfully completed the course"), 12>>, <<r.course, 22>>,
     <<Str("Completed on: ") \o r.date, 12>>,
     <<Str("Authorized Signature"), 0>>, <<Str("Program Director"), 0>>,
     <<Str("Certificate ID: ") \o r.certificate_id, 9>>,
     <<Str("Powered by CertifyFlow"), 10>> >>

\* C18: every centred text line stands at x = 396 - (count * perChar) / 2
\* with perChar 9, 7, 6, 14, 6, 11, 6, 4.5 and 5 in the order of the
\* layout, where count is the length of the text before escaping
CentredAtHalfEstimatedWidth ==
  \A i \in 1..Len(done) :
    LET tds == TextPositions(StreamLines(done[i].buffer))
        texts == CentredTexts(done[i].data)
    IN /\ Len(tds) = Len(texts)
       /\ \A k \in 1..Len(texts) :
            texts[k][2] # 0 =>
              /\ Quarters(tds[k]).ok
              /\ Quarters(tds[k]).value = 4 * 396 - Len(texts[k][1]) * texts[k][2]

\* a call whose name is one opening parenthesis has returned: its name
\* stands at x = 389, one character's shift
EscapedNamePositioned ==
  \E i \in 1..Len(done) :
    /\ done[i].data.name = <<LPAREN>>
    /\ \E k \in 1..Len(StreamLines(done[i].buffer)) :
         StreamLines(done[i].buffer)[k] = Str("389 410 Td")

\* the painting lines of a stream, in order: strokes and shown texts
PaintingLines(lines) ==
  LinesAt(lines, {k \in 1..Len(lines) :
                    EndsWith(lines[k], Str(" S")) \/ EndsWith(lines[k], Str(" Tj"))})

\* the line that shows a text: a literal that reads back as the text
Shows(line, shown) ==
  /\ StartsWith(line, Str("("))
  /\ EndsWith(line, Str(") Tj"))
  /\ LiteralBytes(SubSeq(line, 2, Len(line) - 4)) = BufferFrom(shown)

Strokes(line, path) == line = Str(path)

\* C19: whatever the fields hold, the stream paints the items in the order
\* of the list: outer border, inner border, four corner accents, rule at
\* y=520, CERTIFICATE, OF COMPLETION, 'This is to certify that', name, rule
\* at y=400, 'has successfully completed the course', course, rule at
\* y=320, date line, left signature line and caption, right signature line
\* and caption, certificate-ID line, branding line, rule at y=95
LayoutItemsInListOrder ==
  \A i \in 1..Len(done) :
    LET p == PaintingLines(StreamLines(done[i].buffer))
        r == done[i].data
    IN /\ Len(p) = 27
       /\ Strokes(p[1], "30 30 732 552 re S")
       /\ Strokes(p[2], "42 42 708 528 re S")
       /\ Strokes(p[3], "50 552 m 50 562 l S")
       /\ Strokes(p[4], "50 562 m 60 562 l S")
       /\ Strokes(p[5], "742 552 m 742 562 l S")
       /\ Strokes(p[6], "742 562 m 732 562 l S")
       /\ Strokes(p[7], "50 60 m 50 50 l S")
       /\ Strokes(p[8], "50 50 m 60 50 l S")
       /\ Strokes(p[9], "742 60 m 742 50 l S")
       /\ Strokes(p[10], "742 50 m 732 50 l S")
       /\ Strokes(p[11], "216 520 m 576 520 l S")
       /\ Shows(p[12], Str("CERTIFICATE"))
       /\ Shows(p[13], Str("OF COMPLETION"))
       /\ Shows(p[14], Str("This is to certify that"))
       /\ Shows(p[15], r.name)
       /\ Strokes(p[16], "256 400 m 536 400 l S")
       /\ Shows(p[17], Str("has successfully completed the course"))
       /\ Shows(p[18], r.course)
       /\ Strokes(p[19], "296 320 m 496 320 l S")
       /\ Shows(p[20], Str("Completed on: ") \o r.date)
       /\ Strokes(p[21], "160 160 m 320 160 l S")
       /\ Shows(p[22], Str("Authorized Signature"))
       /\ Strokes(p[23], "472 160 m 632 160 l S")
       /\ Shows(p[24], Str("Program Director"))
       /\ Shows(p[25], Str("Certificate ID: ") \o r.certificate_id)
       /\ Shows(p[26], Str("Powered by CertifyFlow"))
       /\ Strokes(p[27], "216 95 m 576 95 l S")

\* one of the example requests has been encoded into a stream with
\* twenty-seven painting lines, the last of them the rule at y=95
ExamplePainted ==
  \E i \in 1..Len(done) :
    /\ done[i].data \in Examples
    /\ LET p == PaintingLines(StreamLines(done[i].buffer))
       IN Len(p) = 27 /\ p[26] = Str("(Powered by CertifyFlow) Tj")

\* the places of the font selections of a stream, in order: the lines
\* "/<name> <size> Tf"
FontSelections(lines) ==
  Ascending({k \in 1..Len(lines) : EndsWith(lines[k], Str(" Tf"))}, 1, Len(lines))

\* the fonts of the eleven text lines in the order of the layout
FontOfLine ==
  << "/F2 ", "/F2 ", "/F1 ", "/F2 ", "/F1 ", "/F2 ", "/F1 ", "/F1 ", "/F1 ", "/F3 ", "/F2 " >>

\* C20: in the order of the layout the text lines select F2 for
\* CERTIFICATE, OF COMPLETION, the name, the course and the branding line,
\* F3 for the certificate-ID line and for no other, and F1 for the rest,
\* each selection standing in the block of its text; and every selected
\* name is declared in the Font resources of the page
FontsAreFixedAndDeclared ==
  \A i \in 1..Len(done) :
    LET buf == done[i].buffer
        lines == StreamLines(buf)
        sel == FontSelections(lines)
        page == ObjectBytes(buf, ReadXref(buf), 3)
        texts == CentredTexts(done[i].data)
    IN /\ Len(sel) = 11
       /\ \A n \in 1..Len(sel) :
            LET k == sel[n]
            IN /\ k > 1 /\ lines[k - 1] = Str("BT")
               /\ k + 4 <= Len(lines) /\ lines[k + 4] = Str("ET")
               /\ EndsWith(lines[k + 2], Str(" Td"))
               /\ Shows(lines[k + 3], texts[n][1])
               /\ StartsWith(lines[k], Str(FontOfLine[n]))
               /\ RefOf(page, FontOfLine[n]) \in 5..7

\* a call with a certificate id has returned: the id line selects F3
IdLineInMonospace ==
  \E i \in 1..Len(done) :
    /\ done[i].data.certificate_id # <<>>
    /\ \E k \in 1..Len(StreamLines(done[i].buffer)) :
         /\ StreamLines(done[i].buffer)[k] = Str("/F3 8 Tf")
         /\ Shows(StreamLines(done[i].buffer)[k + 3],
                  Str("Certificate ID: ") \o done[i].data.certificate_id)

(***************************************************************************)
(* The text objects of the content stream.                                 *)
(***************************************************************************)
\* the text operator of a line: BT and ET stand alone, Tf, rg, Td and Tj
\* end the line that holds their operands; "" for any other line
TextOperator(line) ==
  CASE line = Str("BT") -> "BT"
    [] line = Str("ET") -> "ET"
    [] EndsWith(line, Str(" Tj")) -> "Tj"
    [] EndsWith(line, Str(" Tf")) -> "Tf"
    [] EndsWith(line, Str(" rg")) -> "rg"
    [] EndsWith(line, Str(" Td")) -> "Td"
    [] OTHER -> ""

\* the text operators of a stream, in order
TextOperators(lines) ==
  LET at == LinesAt(lines, {k \in 1..Len(lines) : TextOperator(lines[k]) # ""})
  IN [j \in 1..Len(at) |-> TextOperator(at[j])]

TextObjectShape == << "BT", "Tf", "rg", "Td", "Tj", "ET" >>

\* C30: whatever the fields hold, the text operators of the content stream
\* are eleven text objects one after the other: BT and ET alternate and
\* never nest, every Tj stands between a BT and its ET, and each object
\* holds one Tf, one rg, one Td and one Tj, in that order
TextObjectsWellFormed ==
  \A i \in 1..Len(done) :
    LET ops == TextOperators(StreamLines(done[i].buffer))
    IN /\ Len(ops) = 11 * Len(TextObjectShape)
       /\ \A j \in 1..Len(ops) : ops[j] = TextObjectShape[((j - 1) % 6) + 1]

\* a call whose name is a closing and an opening parenthesis has returned
\* with eleven closed text objects, the name shown in the fourth
ParenthesesNameInTextObject ==
  \E i \in 1..Len(done) :
    /\ done[i].data.name = <<RPAREN, LPAREN>>
    /\ LET lines == StreamLines(done[i].buffer)
       IN /\ Cardinality({k \in 1..Len(lines) : lines[k] = Str("ET")}) = 11
          /\ \E k \in 1..Len(lines) :
               /\ lines[k] = Str("/F2 28 Tf")
               /\ Shows(lines[k + 3], <<RPAREN, LPAREN>>)
               /\ lines[k + 4] = Str("ET")

(***************************************************************************)
(* A batch with an entry that cannot be encoded.                           *)
(***************************************************************************)
\* an entry the loop cannot encode: null in place of the entry, or a name
\* or course that is neither missing, empty nor a string
CannotBeEncoded(p) ==
  \/ p = JsNull
  \/ /\ p # JsNull
     /\ \E f \in {"name", "course"} : ~MissingOrEmpty(p[f]) /\ p[f].t # "string"

\* the entries of the request, none for a body without a participants array
RequestEntries ==
  IF request # Unparsable /\ HasParticipants(request) THEN request.participants.items ELSE <<>>

\* C22: there is no partial success: a request with an entry that cannot
\* be encoded is answered with status 500 and success false, and the
\* answer holds no certificates list and no total, also when entries
\* before the failing one were encoded
NoPartialSuccess ==
  (Responded /\ \E i \in 1..Len(RequestEntries) : CannotBeEncoded(RequestEntries[i])) =>
     /\ response.status = 500
     /\ response.json.success = FALSE
     /\ DOMAIN response.json = {"success", "error"}

\* the first entry of a request was encoded, the second raised, and the
\* request was answered with 500
SecondEntryRaised ==
  /\ Responded
  /\ Len(RequestEntries) = 2
  /\ Len(certificates) = 1
  /\ Len(calls) >= 1
  /\ calls[1].outcome.t = "return"
  /\ CannotBeEncoded(RequestEntries[2])
  /\ response.status = 500

(***************************************************************************)
(* What an answered certificate reports and what its PDF prints.           *)
(***************************************************************************)
\* the painting lines of the PDF held by an answered certificate
PrintedLines(cert) == PaintingLines(StreamLines(fromBase64(cert.pdf_base64) \o <<>>))

\* the answered certificate reports a certificate id and its PDF prints
\* that id
ReportedIdIsPrinted(cert) ==
  /\ cert.certificate_id.t = "string"
  /\ Shows(PrintedLines(cert)[25], Str("Certificate ID: ") \o cert.certificate_id.s)

\* C25: every answered certificate holds the name, email, course, date
\* and certificate_id of its request entry as they were sent; for a
\* missing or empty field the PDF prints Participant, Course, the date of
\* the day or CERT-<milliseconds> while the answered field stays missing
\* or empty; so the answered certificate_id is the printed one exactly
\* when the request gave one
AnswerEchoesEntryNotDefaults ==
  \A i \in 1..Len(AnsweredCertificates) :
    LET item == request.participants.items[i]
        cert == AnsweredCertificates[i]
        p == PrintedLines(cert)
    IN /\ \A f \in EntryFields \cup {"email"} : cert[f] = item[f]
       /\ Len(p) = 27
       /\ MissingOrEmpty(item.name) =>
            MissingOrEmpty(cert.name) /\ Shows(p[15], Str("Participant"))
       /\ MissingOrEmpty(item.course) =>
            MissingOrEmpty(cert.course) /\ Shows(p[18], Str("Course"))
       /\ MissingOrEmpty(item.date) =>
            /\ MissingOrEmpty(cert.date)
            /\ \E d \in DefaultDates : Shows(p[20], Str("Completed on: ") \o d.s)
       /\ MissingOrEmpty(item.certificate_id) =>
            /\ MissingOrEmpty(cert.certificate_id)
            /\ \E d \in DefaultIds : Shows(p[25], Str("Certificate ID: ") \o d.s)
       /\ ReportedIdIsPrinted(cert) <=> ~MissingOrEmpty(item.certificate_id)

\* an answer holds a certificate for an entry without name, course, date
\* and id, whose PDF prints the four defaults, and one whose id was given
\* and is printed
DefaultsPrintedNotReported ==
  \E i, j \in 1..Len(AnsweredCertificates) :
    /\ AnsweredCertificates[i].name = JsUndefined
    /\ AnsweredCertificates[i].certificate_id = JsUndefined
    /\ Shows(PrintedLines(AnsweredCertificates[i])[15], Str("Participant"))
    /\ Shows(PrintedLines(AnsweredCertificates[i])[25], Str("Certificate ID: CERT-1709251200000"))
    /\ ReportedIdIsPrinted(AnsweredCertificates[j])

(***************************************************************************)
(* What parseAgentResponse makes of an agent response.                     *)
(***************************************************************************)
\* the result field of the response of an agent call; missing when the
\* call gave nothing or its response is no object
RawResultOf(res) ==
  IF res.t = "object" /\ res.response.t = "object" THEN res.response.result
  ELSE JsUndefined

IsJson(s) == JSONparse(s).t = "return"

Braces(s, brace) == {i \in 1..Len(s) : s[i] = brace}

\* the text has a "{" with a "}" somewhere after it
HasBraceSpan(s) ==
  \E i \in Braces(s, 123) : \E j \in Braces(s, 125) : i < j

\* the text from the first "{" to the last "}"
BraceSpan(s) ==
  LET first == CHOOSE i \in Braces(s, 123) : \A k \in Braces(s, 123) : i <= k
      last == CHOOSE j \in Braces(s, 125) : \A k \in Braces(s, 125) : j >= k
  IN SubSeq(s, first, last)

ReturnedValue(v) == parseOutcome = [t |-> "return", value |-> v]

\* C21: parseAgentResponse returns the result of the response unchanged
\* when it is an object, the parsed JSON when it is a text that is JSON,
\* and otherwise the parsed text from the first "{" to the last "}" when
\* that is JSON; it raises an error when the result is missing or empty
\* and when neither the text nor that span is JSON
ResultReturnedParsedOrRaised ==
  parseOutcome # NotCalled =>
    LET rawResult == RawResultOf(result)
    IN CASE rawResult.t \in {"object", "array"} -> ReturnedValue(rawResult)
         [] rawResult.t \in {"undefined", "null"} -> parseOutcome.t = "throw"
         [] rawResult.t = "string" ->
              IF rawResult.s = <<>> THEN parseOutcome.t = "throw"
              ELSE IF IsJson(rawResult.s)
                THEN ReturnedValue(JSONparse(rawResult.s).value)
              ELSE IF HasBraceSpan(rawResult.s) /\ IsJson(BraceSpan(rawResult.s))
                THEN ReturnedValue(JSONparse(BraceSpan(rawResult.s)).value)
              ELSE parseOutcome.t = "throw"
         [] OTHER -> TRUE

\* the object of a text with words around it was returned: the whole text
\* is no JSON, its span from the first "{" to the last "}" is
EmbeddedObjectReturned ==
  /\ RawResultOf(result) = JsString(Str("Here: {\"a\":1} ok"))
  /\ ReturnedValue(JsObject([k \in {<<97>>} |-> JsNumber(1)]))

(***************************************************************************)
(* The steps of the wizard.                                                *)
(***************************************************************************)
NoDuplicates(items) == \A i, j \in 1..Len(items) : items[i] = items[j] => i = j

IsPrefix(a, b) == Len(a) <= Len(b) /\ SubSeq(b, 1, Len(a)) = a

WizardSteps ==
  /\ currentStep \in 0..2
  /\ NoDuplicates(completedSteps)
  /\ \A below \in 0..(currentStep - 1) : Includes(completedSteps, below)

\* C28: whatever is pressed, currentStep is 0, 1 or 2, completedSteps holds
\* no step twice, every step below currentStep is in completedSteps, and
\* no step of the page takes an element out of completedSteps
WizardStepsKept ==
  /\ []WizardSteps
  /\ [][IsPrefix(completedSteps, completedSteps')]_vars

\* back on the first step after both steps were completed
BackAtUploadBothCompleted ==
  /\ currentStep = 0
  /\ completedSteps = <<0, 1>>

(***************************************************************************)
(* The three handlers side by side.                                        *)
(***************************************************************************)
\* the agents whose callAIAgent promise is pending
AgentsInFlight ==
  (IF validating = "agent" THEN {DATA_VALIDATION_AGENT_ID} ELSE {})
    \cup (IF generating = "agent" THEN {CERTIFICATE_GENERATION_AGENT_ID} ELSE {})
    \cup (IF dispatching = "agent" THEN {EMAIL_DISPATCH_AGENT_ID} ELSE {})

\* C26: while an agent call is in flight activeAgentId names an agent
\* whose call is in flight, and it is null only when none is
ActiveAgentIsInFlight ==
  /\ AgentsInFlight # {} => activeAgentId \in AgentsInFlight
  /\ activeAgentId = JsNull => AgentsInFlight = {}

HasPdf(cert) == "pdf_base64" \in DOMAIN cert

\* the stored certificates of a generation result
StoredCerts(generation) == ArrayOf(generation, "certificates")

\* this step ends a run whose PDF request failed: the fetch was rejected,
\* the body of the response was not JSON, or it said success false
PdfRequestFailed ==
  /\ generating' = "idle"
  /\ \/ generating = "fetch"
     \/ /\ generating = "json"
        /\ pdfRes.json = Unparsable \/ ~pdfRes.json.success

\* C23: a run whose PDF request fails stores the parsed result of the
\* agent as it is, with no pdf_base64 on any certificate, sets the progress
\* to 100 and leaves the error message alone
PdfFailureKeepsGeneration ==
  [][PdfRequestFailed =>
       /\ generationResult' = parsed
       /\ \A i \in 1..Len(StoredCerts(generationResult')) :
            ~HasPdf(StoredCerts(generationResult')[i])
       /\ generationProgress' = 100
       /\ errorMessage' = errorMessage
       /\ ~isGenerating']_vars

\* a result with a generated certificate was stored without any PDF
GeneratedStoredWithoutPdf ==
  /\ generating = "idle"
  /\ generationProgress = 100
  /\ errorMessage = <<>>
  /\ \E i \in 1..Len(StoredCerts(generationResult)) :
       IsGenerated(StoredCerts(generationResult)[i])
  /\ \A i \in 1..Len(StoredCerts(generationResult)) :
       ~HasPdf(StoredCerts(generationResult)[i])

\* C24: in a stored generation result every certificate with a
\* pdf_base64 has the status generated and carries the PDF that was
\* printed for its own name, course, date and certificate_id
MergedPdfIsOwn ==
  \A i \in 1..Len(StoredCerts(generationResult)) :
    LET cert == StoredCerts(generationResult)[i]
    IN HasPdf(cert) =>
         /\ IsGenerated(cert)
         /\ cert.pdf_base64 = PdfFor(pdfParticipant(cert))

(***************************************************************************)
(* The participants of a dispatch.                                         *)
(***************************************************************************)
\* the entries of a list at the places in S, in the order of the list
Pick(items, S) ==
  [k \in 1..Cardinality(S) |->
     items[CHOOSE i \in S : Cardinality({j \in S : j < i}) = k - 1]]

\* the places of the generated certificates shown on the page
GeneratedPlaces ==
  {i \in 1..Len(StoredCerts(effectiveGeneration)) :
     StoredCerts(effectiveGeneration)[i].status = GENERATED}

\* the places of those among them whose email has a failed delivery in the
\* dispatch result shown on the page
FailedPlaces ==
  {i \in GeneratedPlaces :
     \E k \in 1..Len(ArrayOf(effectiveDispatch, "deliveries")) :
       /\ ArrayOf(effectiveDispatch, "deliveries")[k].status = FAILED
       /\ ArrayOf(effectiveDispatch, "deliveries")[k].email
            = StoredCerts(effectiveGeneration)[i].email}

\* the name, email, course, date and id of the certificates in the message
SentTo(message) ==
  [k \in 1..Len(message.participants) |->
     <<message.participants[k].name, message.participants[k].email,
       message.participants[k].course, message.participants[k].date,
       message.participants[k].certificate_id>>]

\* the same of the certificates at the places S, a missing id sent as ''
CertsAt(S) ==
  [k \in 1..Cardinality(S) |->
     LET c == Pick(StoredCerts(effectiveGeneration), S)[k]
     IN <<c.participant_name, c.email, c.course, c.date,
          IF c.certificate_id = JsUndefined THEN JsString(<<>>) ELSE c.certificate_id>>]

\* C29: the message of a dispatch names the generated certificates and no
\* other; the message of a retry names exactly the generated certificates
\* whose email has a failed delivery in the current dispatch result
DispatchSendsGeneratedOrFailed ==
  [][dispatching = "idle" /\ dispatching' = "agent" =>
       IF dispatchMessage'.retryOnly
       THEN SentTo(dispatchMessage') = CertsAt(FailedPlaces)
       ELSE SentTo(dispatchMessage') = CertsAt(GeneratedPlaces)]_vars

\* a retry that sends one of two generated certificates
RetrySendsOneOfTwo ==
  /\ dispatching = "agent"
  /\ dispatchMessage.retryOnly
  /\ Len(dispatchMessage.participants) = 1
  /\ Cardinality(GeneratedPlaces) = 2

====
